---- MODULE Spec2Model ----
(***************************************************************************)
(* A model of the flat interpreter's simulation engine                     *)
(* (interp/src/flatten/structures/environment/env.rs): the port map, the   *)
(* combinational convergence loop, the clocked step function, run_program  *)
(* and the layout of components into dense index spaces.                   *)
(*                                                                         *)
(* Index handles are 1-based here (Rust's are 0-based); a global handle is *)
(* still base + local.                                                     *)
(***************************************************************************)
EXTENDS Integers, Sequences, FiniteSets, TLC

VARIABLES
    prog,        \* index of the control program (the immutable Context)
    ports,       \* Environment::ports : GlobalPortIdx -> PortValue
    prim,        \* internal state of the primitive cells
    vec,         \* ProgramCounter::vec : sequence of control points
    par_map,     \* ProgramCounter::par_map : control point -> counter
    with_map,    \* ProgramCounter::with_map : control point -> comb group
    pc,          \* position inside run_program / step
    leaf_nodes,  \* step's leaf_nodes buffer
    set_done,    \* step's set_done buffer
    cursor,      \* cell cursor of step's exec_cycle loop
    tick_log,    \* cells whose exec_cycle ran in the current step
    step_ret,    \* outcome of the most recent call of step
    rp_ret,      \* outcome of run_program
    runs,        \* number of calls of run_program made so far
    nsteps,      \* calls of step made by the current run_program
    prev_ports,  \* the port map as it was when step was last called
    cv,          \* state of a stand-alone run of simulate_combinational
    lay,         \* state of a stand-alone run of Environment::new
    vis,         \* state of a pass of a Visitor over a Namespace
    ge,          \* state of a stand-alone call of evaluate_guard
    leg,         \* state of the legacy interpreter (interpreter.rs)
    ref_cells,   \* Environment::ref_cells : slot -> Option<GlobalCellIdx>
    ref_ports    \* Environment::ref_ports : slot -> Option<GlobalPortIdx>

vars == <<prog, ports, prim, vec, par_map, with_map, pc, leaf_nodes,
          set_done, cursor, tick_log, step_ret, rp_ret, runs, nsteps,
          prev_ports, cv, lay, vis, ge, leg, ref_cells, ref_ports>>

simVars == <<prog, ports, prim, vec, par_map, with_map, pc, leaf_nodes,
             set_done, cursor, tick_log, step_ret, rp_ret, runs, nsteps,
             prev_ports, ref_cells, ref_ports>>

-----------------------------------------------------------------------------
(* Bounds of the model *)

MaxRuns == 2        \* calls of run_program explored
MaxBundle == 2      \* entries of a stand-alone scheduled bundle
MaxCellDefs == 3    \* cell definitions per component in the layout model
MaxSteps == 24      \* the step counter of a run_program call stops here
MaxChanges == 2     \* calls of Changes::_change_node in one pass

(* Values are Width-bit patterns *)
Width == 2
Modulus == 2 ^ Width

-----------------------------------------------------------------------------
\* the element of a one-element set: Only({f(x) : x \in {e}}) names the
\* value of e once, as a Rust `let` does
Only(S) == CHOOSE v \in S : TRUE

(* Port values *)

Undef == [k |-> "U", v |-> 0, src |-> 0]
Implicit(v) == [k |-> "I", v |-> v, src |-> 0]
Assigned(v, s) == [k |-> "A", v |-> v, src |-> s]

is_def(p) == p.k # "U"
is_undef(p) == p.k = "U"

\* Option<bool>: "T", "F" or "N" (None)
as_bool(p) == IF is_undef(p) THEN "N" ELSE IF p.v = 1 THEN "T" ELSE "F"
unwrap_or_default(o) == o = "T"
unwrap_or_true(o) == o # "F"

\* equality of two AssignedValues: the same value, from any source
AssignedValueEq(t, val) == t.v = val.v

\* two AssignedValues conflict when they carry different values
has_conflict_with(t, val) == t.v # val.v

\* Option<&AssignedValue> equality, as used by write_exact_unchecked
OptionEq(a, b) ==
    \/ is_undef(a) /\ is_undef(b)
    \/ is_def(a) /\ is_def(b) /\ AssignedValueEq(a, b)

\* an InterpreterError raised inside convergence; a1 and a2 are the two
\* AssignedValues of FlatConflictingAssignments
Error(what, a1, a2) == [what |-> what, a1 |-> a1, a2 |-> a2]
NoErr == Error("none", Undef, Undef)

insert_val_lww(pm, target, val) ==
    IF is_def(pm[target]) /\ AssignedValueEq(pm[target], val)
    THEN [ports |-> pm, changed |-> FALSE, err |-> NoErr]
    ELSE [ports |-> [pm EXCEPT ![target] = val], changed |-> TRUE,
          err |-> NoErr]

insert_val(pm, target, val) ==
    IF is_def(pm[target]) /\ AssignedValueEq(pm[target], val)
    THEN [ports |-> pm, changed |-> FALSE, err |-> NoErr]
    ELSE IF is_def(pm[target]) /\ has_conflict_with(pm[target], val)
    THEN [ports |-> pm, changed |-> FALSE,
          err |-> Error("ConflictingAssignments", pm[target], val)]
    ELSE [ports |-> [pm EXCEPT ![target] = val], changed |-> TRUE,
          err |-> NoErr]

write_exact_unchecked(pm, target, val) ==
    IF (is_undef(pm[target]) /\ is_undef(val)) \/ OptionEq(pm[target], val)
    THEN [ports |-> pm, changed |-> FALSE]
    ELSE [ports |-> [pm EXCEPT ![target] = val], changed |-> TRUE]

-----------------------------------------------------------------------------
(* The Context: the root component definition and one sub-component.       *)
(*   signature ports : go = 1, done = 2                                    *)
(*   group holes     : group g has go = 2g+1, done = 2g+2   (g = 1..5)     *)
(*   cells (local offset: ports)                                           *)
(*     1 c0  std_const 0 : out 13                                          *)
(*     2 c1  std_const 1 : out 14                                          *)
(*     3 c2  std_const 2 : out 15                                          *)
(*     4 r1  std_reg     : in 16, write_en 17, out 18, done 19             *)
(*     5 r2  std_reg     : in 20, write_en 21, out 22, done 23             *)
(*     6 lt  std_lt      : left 24, right 25, out 26                       *)
(*     7 add std_add     : left 27, right 28, out 29                       *)
(*     8 sub the sub-component: go 30, done 31                             *)
(* The sub-component, laid out after the root's primitives (base 29):      *)
(*   signature ports : go = 1, done = 2; group 6 : go = 3, done = 4        *)
(*   cell one std_const 1 : out 5; ref cell rc, a std_reg (4 ref ports)    *)

NPorts == 34
PortIdx == 1..NPorts

CompGo == 1
CompDone == 2

\* the cell map after layout: the root component frame, its cells, the
\* frame of the sub-component and its cell
Cells == <<
    [kind |-> "comp", port_base |-> 0,  val |-> 0, ref_cell_base |-> 0,
     ref_port_base |-> 0],
    [kind |-> "const", port_base |-> 12, val |-> 0],
    [kind |-> "const", port_base |-> 13, val |-> 1],
    [kind |-> "const", port_base |-> 14, val |-> 2],
    [kind |-> "reg",  port_base |-> 15, val |-> 0],
    [kind |-> "reg",  port_base |-> 19, val |-> 0],
    [kind |-> "lt",   port_base |-> 23, val |-> 0],
    [kind |-> "add",  port_base |-> 26, val |-> 0],
    [kind |-> "comp", port_base |-> 29, val |-> 0, ref_cell_base |-> 0,
     ref_port_base |-> 0],
    [kind |-> "const", port_base |-> 33, val |-> 1] >>

NCells == Len(Cells)
CellIdx == 1..NCells
RootCell == 1
SubCell == 9

\* ref-cell definitions of the sub-component: the ref ports of each offset
RefCellPorts == << <<1, 2, 3, 4>> >>

\* the local ports of a cell definition, in declaration order
LocalPorts(c) ==
    [i \in 1..(CASE Cells[c].kind = "const" -> 1
                 [] Cells[c].kind = "reg" -> 4
                 [] Cells[c].kind \in {"lt", "add"} -> 3
                 [] OTHER -> 2) |-> Cells[c].port_base + i]
PrimCells == {c \in CellIdx : Cells[c].kind # "comp"}

\* guards
Guards == <<
    [t |-> "True", a |-> 0, b |-> 0, p |-> 0],
    [t |-> "Port", a |-> 0, b |-> 0, p |-> 14],
    [t |-> "Not",  a |-> 4, b |-> 0, p |-> 0],
    [t |-> "Port", a |-> 0, b |-> 0, p |-> 13],
    [t |-> "Or",   a |-> 1, b |-> 4, p |-> 0],      \* true | p13
    [t |-> "Not",  a |-> 1, b |-> 0, p |-> 0],      \* !true
    [t |-> "And",  a |-> 6, b |-> 4, p |-> 0],      \* !true & p13
    [t |-> "And",  a |-> 2, b |-> 4, p |-> 0],      \* p14 & p13
    [t |-> "Or",   a |-> 4, b |-> 2, p |-> 0],      \* p13 | p14
    [t |-> "Comp", a |-> 13, b |-> 14, p |-> "Lt"], \* p13 < p14
    [t |-> "Comp", a |-> 13, b |-> 14, p |-> "Geq"],
    [t |-> "Comp", a |-> 13, b |-> 14, p |-> "Eq"],
    [t |-> "Or",   a |-> 8, b |-> 3, p |-> 0],      \* (p14 & p13) | !p13
    [t |-> "Not",  a |-> 9, b |-> 0, p |-> 0] >>    \* !(p13 | p14)

\* assignments  dst := src  when guard
Asg(d, s, g) == [dst |-> d, src |-> s, guard |-> g]

Assigns == <<
    Asg(16, 14, 1), Asg(17, 14, 1), Asg(4, 19, 1),      \* 1-3   G1: r1 := 1
    Asg(20, 18, 2), Asg(21, 14, 1), Asg(6, 23, 1),      \* 4-6   G2: r2 := r1
    Asg(16, 15, 1), Asg(17, 14, 1), Asg(8, 19, 1),      \* 7-9   G3: r1 := 2
    Asg(21, 14, 3), Asg(10, 23, 1),                     \* 10-11 G4: r2.write_en only
    Asg(27, 18, 1), Asg(28, 14, 1), Asg(16, 29, 1),
    Asg(17, 14, 1), Asg(12, 19, 1),                     \* 12-16 G5: r1 := r1 + 1
    Asg(24, 18, 1), Asg(25, 15, 1),                     \* 17-18 CG1: lt = r1 < 2
    Asg(24, 14, 1), Asg(24, 15, 1),                     \* 19-20 CG2: two drivers of lt.left
    Asg(25, 24, 1), Asg(24, 14, 1),                     \* 21-22 CG3: lt.right := lt.left := 1
    Asg(28, 14, 1),                                     \* 23    continuous: add.right := 1
    Asg(4, 5, 1),                                       \* 24    G6 (sub): G6[done] := 1
    Asg(24, 14, 1), Asg(24, 7, 1) >>                    \* 25-26 continuous: lt.left := 1, lt.left := G3[go]

Range(lo, hi) == [lo |-> lo, hi |-> hi]
RangeSeq(r) == [i \in 1..(r.hi - r.lo + 1) |-> r.lo + i - 1]

\* groups: go and done holes and the assignment range
Groups == <<
    [go |-> 3,  done |-> 4,  assignments |-> Range(1, 3)],
    [go |-> 5,  done |-> 6,  assignments |-> Range(4, 6)],
    [go |-> 7,  done |-> 8,  assignments |-> Range(7, 9)],
    [go |-> 9,  done |-> 10, assignments |-> Range(10, 11)],
    [go |-> 11, done |-> 12, assignments |-> Range(12, 16)],
    [go |-> 3,  done |-> 4,  assignments |-> Range(24, 24)] >>

\* combinational groups: only an assignment range
CombGroups == <<
    [assignments |-> Range(17, 18)],
    [assignments |-> Range(19, 20)],
    [assignments |-> Range(21, 22)] >>

CondPort == 26      \* lt.out, the condition port of the If and While nodes

-----------------------------------------------------------------------------
(* Handles *)

\* base + local (ComponentLedger::convert_to_global_port, local ports only)
get_global_port_idx(port, comp) == Cells[comp].port_base + port

get_comp_go(comp) == Cells[comp].port_base + CompGo
get_comp_done(comp) == Cells[comp].port_base + CompDone
get_root_done == get_comp_done(RootCell)

-----------------------------------------------------------------------------
(* Guard evaluation: Option<bool> as "T" / "F" / "N" *)

BoolOpt(b) == IF b THEN "T" ELSE "F"

\* And and Or with the shortcut of a three-valued logic
RECURSIVE evaluate_guard_kleene(_, _, _)
evaluate_guard_kleene(pm, guard, comp) ==
    LET g == Guards[guard] IN
    CASE g.t = "True" -> "T"
      [] g.t = "Or" ->
            LET g1 == evaluate_guard_kleene(pm, g.a, comp)
                g2 == evaluate_guard_kleene(pm, g.b, comp)
            IN IF g1 = "T" \/ g2 = "T" THEN "T"
               ELSE IF g1 = "N" \/ g2 = "N" THEN "N" ELSE "F"
      [] g.t = "And" ->
            LET g1 == evaluate_guard_kleene(pm, g.a, comp)
                g2 == evaluate_guard_kleene(pm, g.b, comp)
            IN IF g1 = "F" \/ g2 = "F" THEN "F"
               ELSE IF g1 = "N" \/ g2 = "N" THEN "N" ELSE "T"
      [] g.t = "Not" ->
            LET n == evaluate_guard_kleene(pm, g.a, comp)
            IN IF n = "N" THEN "N" ELSE BoolOpt(n = "F")
      [] g.t = "Comp" ->
            LET a == pm[get_global_port_idx(g.a, comp)]
                b == pm[get_global_port_idx(g.b, comp)]
            IN IF is_undef(a) \/ is_undef(b) THEN "N"
               ELSE (CASE g.p = "Eq" -> BoolOpt(a.v = b.v)
                      [] g.p = "Neq" -> BoolOpt(a.v # b.v)
                      [] g.p = "Gt"  -> BoolOpt(a.v > b.v)
                      [] g.p = "Lt"  -> BoolOpt(a.v < b.v)
                      [] g.p = "Geq" -> BoolOpt(a.v >= b.v)
                      [] g.p = "Leq" -> BoolOpt(a.v <= b.v))
      [] g.t = "Port" -> as_bool(pm[get_global_port_idx(g.p, comp)])

RECURSIVE evaluate_guard(_, _, _)
evaluate_guard(pm, guard, comp) ==
    LET g == Guards[guard] IN
    CASE g.t = "True" -> "T"
      [] g.t = "Or" ->
            LET g1 == evaluate_guard(pm, g.a, comp)
                g2 == evaluate_guard(pm, g.b, comp)
            IN IF g1 = "N" \/ g2 = "N" THEN "N"
               ELSE BoolOpt(g1 = "T" \/ g2 = "T")
      [] g.t = "And" ->
            LET g1 == evaluate_guard(pm, g.a, comp)
                g2 == evaluate_guard(pm, g.b, comp)
            IN IF g1 = "N" \/ g2 = "N" THEN "N"
               ELSE BoolOpt(g1 = "T" /\ g2 = "T")
      [] g.t = "Not" ->
            LET n == evaluate_guard(pm, g.a, comp)
            IN IF n = "N" THEN "N" ELSE BoolOpt(n = "F")
      [] g.t = "Comp" ->
            LET a == pm[get_global_port_idx(g.a, comp)]
                b == pm[get_global_port_idx(g.b, comp)]
            IN IF is_undef(a) \/ is_undef(b) THEN "N"
               ELSE (CASE g.p = "Eq" -> BoolOpt(a.v = b.v)
                      [] g.p = "Neq" -> BoolOpt(a.v # b.v)
                      [] g.p = "Gt"  -> BoolOpt(a.v > b.v)
                      [] g.p = "Lt"  -> BoolOpt(a.v < b.v)
                      [] g.p = "Geq" -> BoolOpt(a.v >= b.v)
                      [] g.p = "Leq" -> BoolOpt(a.v <= b.v))
      [] g.t = "Port" -> as_bool(pm[get_global_port_idx(g.p, comp)])

-----------------------------------------------------------------------------
(* Primitives: std_const, std_reg, std_lt, std_add.                        *)
(* exec_comb drives the output ports from the internal state and the       *)
(* input ports; exec_cycle is the clocked update.                          *)

PrimInit == [c \in CellIdx |-> [val |-> Cells[c].val, done |-> 0]]

\* ports of one primitive after its exec_comb, with its change flag
exec_comb(pm, ps, c) ==
    LET b == Cells[c].port_base IN
    CASE Cells[c].kind = "const" ->
            write_exact_unchecked(pm, b + 1, Implicit(ps[c].val))
      [] Cells[c].kind = "reg" ->
            LET w1 == write_exact_unchecked(pm, b + 3, Implicit(ps[c].val))
                w2 == write_exact_unchecked(w1.ports, b + 4,
                                            Implicit(ps[c].done))
            IN [ports |-> w2.ports, changed |-> w1.changed \/ w2.changed]
      [] Cells[c].kind = "lt" ->
            IF is_def(pm[b + 1]) /\ is_def(pm[b + 2])
            THEN write_exact_unchecked(pm, b + 3,
                    Implicit(IF pm[b + 1].v < pm[b + 2].v THEN 1 ELSE 0))
            ELSE [ports |-> pm, changed |-> FALSE]
      [] Cells[c].kind = "add" ->
            IF is_def(pm[b + 1]) /\ is_def(pm[b + 2])
            THEN write_exact_unchecked(pm, b + 3,
                    Implicit((pm[b + 1].v + pm[b + 2].v) % Modulus))
            ELSE [ports |-> pm, changed |-> FALSE]
      [] OTHER -> [ports |-> pm, changed |-> FALSE]

\* the clocked update of one primitive: new internal state or an error
exec_cycle(pm, ps, c) ==
    LET b == Cells[c].port_base IN
    IF Cells[c].kind = "reg"
    THEN IF unwrap_or_default(as_bool(pm[b + 2]))
         THEN IF is_def(pm[b + 1])
              THEN [prim |-> [ps EXCEPT ![c] = [val |-> pm[b + 1].v,
                                                 done |-> 1]],
                    err |-> "none"]
              ELSE [prim |-> ps, err |-> "PrimitiveError"]
         ELSE [prim |-> [ps EXCEPT ![c].done = 0], err |-> "none"]
    ELSE [prim |-> ps, err |-> "none"]

-----------------------------------------------------------------------------
(* Scheduled assignments *)

\* ScheduledAssignments::new(active_cell, assignments, interface_ports)
ScheduledAssignments(cell, assigns, iface, go, done) ==
    [active_cell |-> cell, assignments |-> assigns, iface |-> iface,
     go |-> go, done |-> done]

GroupEntry(cell, g) ==
    ScheduledAssignments(cell, Groups[g].assignments, TRUE,
                         Groups[g].go, Groups[g].done)
CombEntry(cell, cg) ==
    ScheduledAssignments(cell, CombGroups[cg].assignments, FALSE, 0, 0)

-----------------------------------------------------------------------------
(* simulate_combinational *)


\* the go of the component is not looked at
FiresOnGroupGo(pm, e, a) ==
    /\ unwrap_or_default(evaluate_guard(pm, Assigns[a].guard, e.active_cell))
    /\ e.iface =>
         unwrap_or_default(as_bool(pm[get_global_port_idx(e.go,
                                                          e.active_cell)]))

\* the assignment fires: its guard is true and, for a group entry, the
\* group's go and the component's go are both high
Fires(pm, e, a) ==
    /\ unwrap_or_default(evaluate_guard(pm, Assigns[a].guard, e.active_cell))
    /\ e.iface =>
         /\ unwrap_or_default(as_bool(pm[get_global_port_idx(e.go,
                                                             e.active_cell)]))
         /\ unwrap_or_default(as_bool(pm[get_comp_go(e.active_cell)]))

\* an undefined done does not hold the assignment back
SkippedWhenHigh(pm, e, a) ==
    /\ e.iface
    /\ get_global_port_idx(Assigns[a].dst, e.active_cell)
         # get_global_port_idx(e.done, e.active_cell)
    /\ unwrap_or_default(as_bool(pm[get_global_port_idx(e.done,
                                                        e.active_cell)]))

\* a firing assignment of a group entry is skipped when its destination is
\* not the done hole and done is high or undefined
Skipped(pm, e, a) ==
    /\ e.iface
    /\ get_global_port_idx(Assigns[a].dst, e.active_cell)
         # get_global_port_idx(e.done, e.active_cell)
    /\ unwrap_or_true(as_bool(pm[get_global_port_idx(e.done, e.active_cell)]))

\* what the loop body reads in pm for assignment a of entry e, and what it
\* does: the guard, the go of the entry and of the component, the done of
\* the entry, and whether the assignment was held back by the test of line
\* 1127 ("idle"), skipped by the test of line 1156, or went on to the write
Eval(pm, e, a) ==
    [e |-> e, a |-> a,
     guard |-> evaluate_guard(pm, Assigns[a].guard, e.active_cell),
     go |-> IF e.iface
            THEN as_bool(pm[get_global_port_idx(e.go, e.active_cell)])
            ELSE "none",
     comp_go |-> as_bool(pm[get_comp_go(e.active_cell)]),
     done |-> IF e.iface
              THEN as_bool(pm[get_global_port_idx(e.done, e.active_cell)])
              ELSE "none",
     src |-> is_def(pm[get_global_port_idx(Assigns[a].src, e.active_cell)]),
     did |-> IF ~Fires(pm, e, a) THEN "idle"
             ELSE IF Skipped(pm, e, a) THEN "skipped" ELSE "fired"]

\* an assignment whose source is undefined undefines its destination
ApplyAssignUndefining(s, e, a) ==
    LET val == s.ports[get_global_port_idx(Assigns[a].src, e.active_cell)]
        dest == get_global_port_idx(Assigns[a].dst, e.active_cell)
    IN  IF ~Fires(s.ports, e, a) \/ Skipped(s.ports, e, a)
        THEN [s EXCEPT !.log = @ \cup {Eval(s.ports, e, a)}]
        ELSE IF is_def(val)
        THEN Only({[ports |-> r.ports, changed |-> s.changed \/ r.changed,
                    err |-> r.err,
                    fired |-> s.fired \cup {[a |-> a, dst |-> dest,
                                             v |-> val.v]},
                    log |-> s.log \cup {Eval(s.ports, e, a)}] :
                   r \in {insert_val(s.ports, dest, Assigned(val.v, a))}})
        ELSE [s EXCEPT !.ports[dest] = Undef,
                       !.log = @ \cup {Eval(s.ports, e, a)}]

\* s = [ports, changed, err, fired, log]: the body of the loop over one
\* entry's assignments
ApplyAssign(s, e, a) ==
    LET val == s.ports[get_global_port_idx(Assigns[a].src, e.active_cell)]
        dest == get_global_port_idx(Assigns[a].dst, e.active_cell)
    IN  IF ~Fires(s.ports, e, a) \/ Skipped(s.ports, e, a)
        THEN [s EXCEPT !.log = @ \cup {Eval(s.ports, e, a)}]
        ELSE IF is_def(val)
        THEN Only({[ports |-> r.ports, changed |-> s.changed \/ r.changed,
                    err |-> r.err,
                    fired |-> s.fired \cup {[a |-> a, dst |-> dest,
                                             v |-> val.v]},
                    log |-> s.log \cup {Eval(s.ports, e, a)}] :
                   r \in {insert_val(s.ports, dest, Assigned(val.v, a))}})
        ELSE IF is_def(s.ports[dest])
        THEN [s EXCEPT !.err = Error("UndefinesValue", Undef, Undef),
                       !.log = @ \cup {Eval(s.ports, e, a)}]
        ELSE [s EXCEPT !.log = @ \cup {Eval(s.ports, e, a)}]

RECURSIVE RunAssigns(_, _, _, _)
RunAssigns(s, e, idxs, i) ==
    IF s.err.what # "none" \/ i > Len(idxs) THEN s
    ELSE Only({RunAssigns(t, e, idxs, i + 1) :
               t \in {ApplyAssign(s, e, idxs[i])}})

RECURSIVE RunEntries(_, _, _)
RunEntries(s, bundle, i) ==
    IF s.err.what # "none" \/ i > Len(bundle) THEN s
    ELSE Only({RunEntries(t, bundle, i + 1) :
               t \in {RunAssigns(s, bundle[i],
                                 RangeSeq(bundle[i].assignments), 1)}})

\* exec_comb of every primitive, in cell order, OR-ing the change flags
RECURSIVE RunPrimitives(_, _, _)
RunPrimitives(w, ps, c) ==
    IF c > NCells THEN w
    ELSE IF Cells[c].kind = "comp" THEN RunPrimitives(w, ps, c + 1)
    ELSE Only({RunPrimitives([ports |-> r.ports,
                              changed |-> w.changed \/ r.changed],
                             ps, c + 1) :
               r \in {exec_comb(w.ports, ps, c)}})

\* the done holes of the bundle's group entries
done_ports(bundle) ==
    {get_global_port_idx(bundle[i].done, bundle[i].active_cell) :
        i \in {j \in 1..Len(bundle) : bundle[j].iface}}

\* undefined done ports are set high
ResolveDanglingHigh(pm, bundle) ==
    [p \in PortIdx |-> IF p \in done_ports(bundle) /\ is_undef(pm[p])
                       THEN Implicit(1) ELSE pm[p]]

\* undefined done ports are set to Implicit(0) once a pass changed nothing
ResolveDangling(pm, bundle) ==
    [p \in PortIdx |-> IF p \in done_ports(bundle) /\ is_undef(pm[p])
                       THEN Implicit(0) ELSE pm[p]]

\* has_changed after the assignments and the primitives of a pass
PassChangedPrimsOnly(assign_changed, prim_changed) == prim_changed

PassChanged(assign_changed, prim_changed) == assign_changed \/ prim_changed

\* one iteration of the while loop
ConvIter(pm, ps, bundle) ==
    Only({
        IF a.err.what # "none"
        THEN [ports |-> a.ports, has_changed |-> FALSE, err |-> a.err,
              fired |-> a.fired, assigned |-> a.ports, log |-> a.log]
        ELSE
        Only({
            LET ch == PassChanged(a.changed, w.changed)
                dangling == \E p \in done_ports(bundle) :
                               is_undef(w.ports[p])
            IN  IF ch
                THEN [ports |-> w.ports, has_changed |-> TRUE,
                      err |-> NoErr, fired |-> a.fired,
                      assigned |-> a.ports, log |-> a.log]
                ELSE [ports |-> ResolveDangling(w.ports, bundle),
                      has_changed |-> dangling, err |-> NoErr,
                      fired |-> a.fired, assigned |-> a.ports,
                      log |-> a.log] :
            w \in {RunPrimitives([ports |-> a.ports, changed |-> FALSE],
                                 ps, 1)}}) :
        a \in {RunEntries([ports |-> pm, changed |-> FALSE, err |-> NoErr,
                           fired |-> {}, log |-> {}], bundle, 1)}})

\* the whole loop: the final port map and the error, if any
RECURSIVE simulate_combinational(_, _, _)
simulate_combinational(pm, ps, bundle) ==
    Only({IF r.err.what # "none" THEN [ports |-> r.ports, err |-> r.err]
          ELSE IF r.has_changed
          THEN simulate_combinational(r.ports, ps, bundle)
          ELSE [ports |-> r.ports, err |-> NoErr] :
          r \in {ConvIter(pm, ps, bundle)}})

-----------------------------------------------------------------------------
(* Control programs *)

Node(t, stms, cp, cg, tb, fb, body, group) ==
    [t |-> t, stms |-> stms, cond_port |-> cp, cond_group |-> cg,
     tbranch |-> tb, fbranch |-> fb, body |-> body, group |-> group]

SeqN(stms) == Node("Seq", stms, 0, 0, 0, 0, 0, 0)
ParN(stms) == Node("Par", stms, 0, 0, 0, 0, 0, 0)
IfN(cp, cg, tb, fb) == Node("If", <<>>, cp, cg, tb, fb, 0, 0)
WhileN(cp, cg, body) == Node("While", <<>>, cp, cg, 0, 0, body, 0)
EnableN(g) == Node("Enable", <<>>, 0, 0, 0, 0, 0, g)
EmptyN == Node("Empty", <<>>, 0, 0, 0, 0, 0, 0)

\* Invoke { cell, go, done, ref_cells, assignments, comb_group }; rcs is a
\* sequence of bindings <<offset of the callee's ref cell, supplied cell>>
InvokeN(cell, go, done, rcs, asgs, cg) ==
    [t |-> "Invoke", cell |-> cell, go |-> go, done |-> done,
     ref_cells |-> [k \in 1..Len(rcs) |->
                      [offset |-> rcs[k][1], cell |-> rcs[k][2]]],
     assignments |-> asgs, comb_group |-> cg]

\* sub is the control root of the sub-component, 0 when the program has no
\* control for it
ProgramSub(nodes, cont, sub) ==
    [nodes |-> nodes, control |-> 1, cont |-> cont, sub |-> sub]

Program(nodes, cont) == ProgramSub(nodes, cont, 0)

\* the largest value of the u16 counter of a par
U16Max == 65535

\* node 1 is the control root of the root component of every program;
\* 0 stands for None
Programs == <<
    Program(<<EnableN(1)>>, <<>>),
    Program(<<SeqN(<<2, 3>>), EnableN(1), EnableN(2)>>, <<>>),
    Program(<<ParN(<<2, 3>>), EnableN(1), EnableN(2)>>, <<>>),
    Program(<<ParN(<<2, 3>>), EnableN(1), EnableN(3)>>, <<>>),
    Program(<<IfN(CondPort, 1, 2, 3), EnableN(1), EnableN(2)>>, <<>>),
    Program(<<IfN(CondPort, 0, 2, 3), EnableN(1), EnableN(2)>>, <<>>),
    Program(<<WhileN(CondPort, 1, 2), EnableN(5)>>, <<>>),
    Program(<<IfN(CondPort, 2, 2, 3), EnableN(1), EnableN(2)>>, <<>>),
    Program(<<EnableN(4)>>, <<>>),
    Program(<<ParN(<<>>)>>, <<>>),
    Program(<<WhileN(CondPort, 0, 2), EnableN(5)>>, <<>>),
    Program(<<SeqN(<<2, 3>>), EnableN(1), IfN(14, 0, 4, 5), EnableN(2),
              EmptyN>>, <<>>),
    Program(<<SeqN(<<>>)>>, <<>>),
    Program(<<SeqN(<<2, 5>>), ParN(<<3, 4>>), EnableN(1), EnableN(2),
              WhileN(CondPort, 3, 6), EmptyN>>, <<Range(23, 23)>>),
    Program(<<WhileN(CondPort, 1, 2), ParN(<<3, 4>>), EnableN(5),
              EnableN(2)>>, <<>>),
    Program(<<ParN(<<2, 3>>), EnableN(2), EnableN(1)>>, <<>>),
    Program(<<ParN(<<2, 5>>), SeqN(<<3, 4>>), EnableN(1), EnableN(3),
              EnableN(2)>>, <<>>),
    Program(<<ParN(<<2, 3>>), EnableN(2), SeqN(<<4, 5>>), EnableN(1),
              EnableN(3)>>, <<>>),
    Program(<<SeqN(<<2, 3>>), SeqN(<<>>), EnableN(1)>>, <<>>),
    Program(<<SeqN(<<2, 4>>), WhileN(CondPort, 1, 3), EnableN(5),
              EnableN(2)>>, <<>>),
    Program(<<SeqN(<<2, 3>>), EnableN(1), IfN(13, 0, 4, 5), EnableN(1),
              EnableN(3)>>, <<>>),
    Program(<<SeqN(<<2, 3, 6>>), EnableN(3), IfN(CondPort, 1, 4, 5),
              EnableN(1), EnableN(2), EnableN(5)>>, <<>>),
    Program(<<SeqN(<<2, 3>>), EmptyN, IfN(CondPort, 1, 4, 5), EnableN(2),
              EmptyN>>, <<Range(12, 15)>>),
    ProgramSub(<<SeqN(<<2, 3>>),
                 InvokeN(SubCell, 30, 31, <<<<1, 6>>>>, Range(1, 0), 0),
                 InvokeN(SubCell, 30, 31, <<<<1, 5>>>>, Range(1, 0), 1),
                 EnableN(6)>>, <<>>, 4),
    Program(<<InvokeN(5, 17, 19, <<>>, Range(1, 1), 0)>>, <<>>),
    ProgramSub(<<InvokeN(SubCell, 30, 31, <<<<1, 2>>>>, Range(1, 0), 0),
                 EnableN(6)>>, <<>>, 2),
    Program(<<ParN([i \in 1..(U16Max + 1) |-> 2]), EnableN(1)>>, <<>>),
    Program(<<EnableN(1)>>, <<Range(25, 26)>>) >>

NProgs == Len(Programs)

NodesOf(pg) == Programs[pg].nodes

Children(n) ==
    CASE n.t \in {"Seq", "Par"} -> n.stms
      [] n.t = "If" -> <<n.tbranch, n.fbranch>>
      [] n.t = "While" -> <<n.body>>
      [] OTHER -> <<>>

\* node n is a child of the control node p
IsChild(p, n) == \E i \in 1..Len(Children(p)) : Children(p)[i] = n

IndexIn(seq, x) == CHOOSE i \in 1..Len(seq) : seq[i] = x

\* the parent of node n in the control tree, 0 for the root
ParentOf(pg, n) ==
    Only({IF \E m \in 1..Len(nodes) : IsChild(nodes[m], n)
          THEN CHOOSE m \in 1..Len(nodes) : IsChild(nodes[m], n)
          ELSE 0 :
          nodes \in {NodesOf(pg)}})

\* ControlPoint::get_next: the node's successor, found by walking up the
\* control tree; 0 for None
RECURSIVE NextNode(_, _)
NextNode(pg, n) ==
    Only({
        IF m = 0 THEN 0
        ELSE Only({
             CASE parent.t = "Seq" ->
                    IF IndexIn(parent.stms, n) < Len(parent.stms)
                    THEN parent.stms[IndexIn(parent.stms, n) + 1]
                    ELSE NextNode(pg, m)
               [] parent.t = "Par" -> m
               [] parent.t = "While" -> m
               [] parent.t = "If" ->
                    IF parent.cond_group # 0 THEN m ELSE NextNode(pg, m) :
             parent \in {NodesOf(pg)[m]}}) :
        m \in {ParentOf(pg, n)}})

ControlPoint(comp, node) == [comp |-> comp, node |-> node]

\* the control root of the definition of component instance comp
ControlOf(pg, comp) ==
    IF comp = RootCell THEN Programs[pg].control ELSE Programs[pg].sub

\* ProgramCounter::new: one control point per component frame whose
\* definition has a control root
SeedPC(pg) ==
    <<ControlPoint(RootCell, Programs[pg].control)>>
    \o (IF Programs[pg].sub # 0
        THEN <<ControlPoint(SubCell, Programs[pg].sub)>> ELSE <<>>)

\* the ref-cell and ref-port maps after layout: one slot for rc of the
\* sub-component and one per port of rc, all None (0)
NoRefCells == <<0>>
NoRefPorts == <<0, 0, 0, 0>>

get_next(pg, pt) == NextNode(pg, pt.node)

\* ControlPoint::mutate_into_next: move to the successor if there is one
mutate_into_next(pg, pt) ==
    Only({IF next # 0
          THEN [pt |-> ControlPoint(pt.comp, next), retain |-> TRUE]
          ELSE [pt |-> pt, retain |-> FALSE] :
          next \in {get_next(pg, pt)}})

\* the nodes of the subtree below node n (n excluded)
RECURSIVE Descendants(_, _)
Descendants(pg, n) ==
    LET cs == {Children(NodesOf(pg)[n])[i] :
                 i \in 1..Len(Children(NodesOf(pg)[n]))}
    IN cs \cup UNION {Descendants(pg, c) : c \in cs}

-----------------------------------------------------------------------------
(* Outcomes of step and run_program *)

Outcome(kind, what, at) == [kind |-> kind, what |-> what, at |-> at]
NoOutcome == Outcome("none", "none", "none")
Ok == Outcome("Ok", "none", "none")

\* maps with a dynamic domain
MapInsert(m, key, val) ==
    [x \in DOMAIN m \cup {key} |-> IF x = key THEN val ELSE m[x]]
MapRemove(m, key) == [x \in DOMAIN m \ {key} |-> m[x]]
EmptyMap == [x \in {} |-> 0]


-----------------------------------------------------------------------------
(* step, part (a): control advancement.                                    *)
(* st = [ports, par_map, with_map, new_nodes, leaf_nodes, set_done, out,   *)
(*       panic] is the state of the retain_mut walk over pc.vec; out       *)
(* collects the retained control points.                                   *)

Panic(st, what, at) == [st EXCEPT !.panic = Outcome("Panic", what, at)]

Res(st, pt, retain) == [st |-> st, pt |-> pt, retain |-> retain]

Advanced(pg, st, pt) ==
    Only({Res(st, m.pt, m.retain) : m \in {mutate_into_next(pg, pt)}})

\* the Seq is entered at its last child
VisitSeqLast(pg, st, pt, n) ==
    IF Len(n.stms) # 0
    THEN Res(st, ControlPoint(pt.comp, n.stms[Len(n.stms)]), TRUE)
    ELSE Advanced(pg, st, pt)

VisitSeq(pg, st, pt, n) ==
    IF Len(n.stms) # 0
    THEN Res(st, ControlPoint(pt.comp, n.stms[1]), TRUE)
    ELSE Advanced(pg, st, pt)

\* the counter is tested before it is decremented
VisitParLateMerge(pg, st, pt, n) ==
    IF pt \in DOMAIN st.par_map
    THEN IF st.par_map[pt] = 0
         THEN Advanced(pg, [st EXCEPT !.par_map = MapRemove(@, pt)], pt)
         ELSE Res([st EXCEPT !.par_map[pt] = @ - 1], pt, FALSE)
    ELSE Res([st EXCEPT
                !.par_map = MapInsert(@, pt, Len(n.stms)),
                !.new_nodes = @ \o [i \in 1..Len(n.stms) |->
                                      ControlPoint(pt.comp, n.stms[i])]],
             pt, FALSE)

\* the par advances as soon as one child has come back
VisitParFirstBack(pg, st, pt, n) ==
    IF pt \in DOMAIN st.par_map
    THEN Advanced(pg, [st EXCEPT !.par_map = MapRemove(@, pt)], pt)
    ELSE IF Len(n.stms) > U16Max
         THEN Res(Panic(st, "ParOverflow", "par"), pt, FALSE)
         ELSE Res([st EXCEPT
                     !.par_map = MapInsert(@, pt, Len(n.stms)),
                     !.new_nodes = @ \o [i \in 1..Len(n.stms) |->
                                           ControlPoint(pt.comp, n.stms[i])]],
                  pt, FALSE)

VisitPar(pg, st, pt, n) ==
    IF pt \in DOMAIN st.par_map
    THEN IF st.par_map[pt] - 1 = 0
         THEN Advanced(pg, [st EXCEPT !.par_map = MapRemove(@, pt)], pt)
         ELSE Res([st EXCEPT !.par_map[pt] = @ - 1], pt, FALSE)
    ELSE IF Len(n.stms) > U16Max
         THEN Res(Panic(st, "ParOverflow", "par"), pt, FALSE)
         ELSE Res([st EXCEPT
                     !.par_map = MapInsert(@, pt, Len(n.stms)),
                     !.new_nodes = @ \o [i \in 1..Len(n.stms) |->
                                           ControlPoint(pt.comp, n.stms[i])]],
                  pt, FALSE)

\* the condition port of an If or While is read; an undefined one panics
ReadCond(pm, n, comp) == as_bool(pm[get_global_port_idx(n.cond_port, comp)])

\* the convergence of a with group during the walk; skipped (run = FALSE)
\* when the node has none or it has already run
WithConv(run, pm, ps, comp, cg) ==
    IF run THEN simulate_combinational(pm, ps, <<CombEntry(comp, cg)>>)
    ELSE [ports |-> pm, err |-> NoErr]

\* the false branch is entered whatever the condition reads
VisitIfFalseOnly(pg, ps, st, pt, n) ==
    LET contains_node == pt \in DOMAIN st.with_map
        first == n.cond_group # 0 /\ ~contains_node
    IN  Only({
        IF first /\ conv.err.what # "none"
        THEN Res(Panic([st EXCEPT
                          !.with_map = MapInsert(@, pt, n.cond_group),
                          !.ports = conv.ports],
                       conv.err.what, "with-if"), pt, FALSE)
        ELSE Only({
            IF n.cond_group # 0 /\ contains_node
            THEN Advanced(pg, [st1 EXCEPT !.with_map = MapRemove(@, pt)],
                          pt)
            ELSE IF ReadCond(st1.ports, n, pt.comp) = "N"
            THEN Res(Panic(st1, "UndefinedCondition", "if"), pt, FALSE)
            ELSE Res(st1,
                     ControlPoint(pt.comp,
                                  n.fbranch),
                     TRUE) :
            st1 \in {IF first
                     THEN [st EXCEPT
                             !.with_map = MapInsert(@, pt, n.cond_group),
                             !.ports = conv.ports]
                     ELSE st}}) :
        conv \in {WithConv(first, st.ports, ps, pt.comp, n.cond_group)}})

VisitIf(pg, ps, st, pt, n) ==
    LET contains_node == pt \in DOMAIN st.with_map
        first == n.cond_group # 0 /\ ~contains_node
    IN  Only({
        IF first /\ conv.err.what # "none"
        THEN Res(Panic([st EXCEPT
                          !.with_map = MapInsert(@, pt, n.cond_group),
                          !.ports = conv.ports],
                       conv.err.what, "with-if"), pt, FALSE)
        ELSE Only({
            IF n.cond_group # 0 /\ contains_node
            THEN Advanced(pg, [st1 EXCEPT !.with_map = MapRemove(@, pt)],
                          pt)
            ELSE IF ReadCond(st1.ports, n, pt.comp) = "N"
            THEN Res(Panic(st1, "UndefinedCondition", "if"), pt, FALSE)
            ELSE Res(st1,
                     ControlPoint(pt.comp,
                                  IF ReadCond(st1.ports, n, pt.comp) = "T"
                                  THEN n.tbranch ELSE n.fbranch),
                     TRUE) :
            st1 \in {IF first
                     THEN [st EXCEPT
                             !.with_map = MapInsert(@, pt, n.cond_group),
                             !.ports = conv.ports]
                     ELSE st}}) :
        conv \in {WithConv(first, st.ports, ps, pt.comp, n.cond_group)}})

\* the with_map entry is kept when the loop is left
VisitWhileKeepsGroup(pg, ps, st, pt, n) ==
    LET has_group == n.cond_group # 0
        comb_group == IF pt \in DOMAIN st.with_map THEN st.with_map[pt]
                      ELSE n.cond_group
    IN  Only({
        Only({
            IF has_group /\ conv.err.what # "none"
            THEN Res(Panic(st1, conv.err.what, "with-while"), pt, FALSE)
            ELSE IF ReadCond(st1.ports, n, pt.comp) = "N"
            THEN Res(Panic(st1, "UndefinedCondition", "while"), pt, FALSE)
            ELSE IF ReadCond(st1.ports, n, pt.comp) = "T"
            THEN Res(st1, ControlPoint(pt.comp, n.body), TRUE)
            ELSE Advanced(pg, st1, pt) :
            st1 \in {IF has_group
                     THEN [st EXCEPT
                             !.with_map = MapInsert(@, pt, comb_group),
                             !.ports = conv.ports]
                     ELSE st}}) :
        conv \in {WithConv(has_group, st.ports, ps, pt.comp, comb_group)}})

VisitWhile(pg, ps, st, pt, n) ==
    LET has_group == n.cond_group # 0
        comb_group == IF pt \in DOMAIN st.with_map THEN st.with_map[pt]
                      ELSE n.cond_group
    IN  Only({
        Only({
            IF has_group /\ conv.err.what # "none"
            THEN Res(Panic(st1, conv.err.what, "with-while"), pt, FALSE)
            ELSE IF ReadCond(st1.ports, n, pt.comp) = "N"
            THEN Res(Panic(st1, "UndefinedCondition", "while"), pt, FALSE)
            ELSE IF ReadCond(st1.ports, n, pt.comp) = "T"
            THEN Res(st1, ControlPoint(pt.comp, n.body), TRUE)
            ELSE Advanced(pg,
                          IF has_group
                          THEN [st1 EXCEPT !.with_map = MapRemove(@, pt)]
                          ELSE st1,
                          pt) :
            st1 \in {IF has_group
                     THEN [st EXCEPT
                             !.with_map = MapInsert(@, pt, comb_group),
                             !.ports = conv.ports]
                     ELSE st}}) :
        conv \in {WithConv(has_group, st.ports, ps, pt.comp, comb_group)}})

\* an undefined done counts as high
VisitEnableUndefinedIsDone(pg, st, pt, n) ==
    IF ~unwrap_or_true(as_bool(
           st.ports[get_global_port_idx(Groups[n.group].done, pt.comp)]))
    THEN Res([st EXCEPT !.leaf_nodes = Append(@, pt)], pt, TRUE)
    ELSE Advanced(pg, st, pt)

VisitEnable(pg, st, pt, n) ==
    IF ~unwrap_or_default(as_bool(
           st.ports[get_global_port_idx(Groups[n.group].done, pt.comp)]))
    THEN Res([st EXCEPT !.leaf_nodes = Append(@, pt)], pt, TRUE)
    ELSE Advanced(pg, st, pt)

\* the slots are left bound when the invoke is done
cleanup_ref_cells_skipped(st, parent_comp, n) ==
    IF Cells[n.cell].kind # "comp"
    THEN Panic(st, "MalformedInvoke", "cleanup_ref_cells")
    ELSE st

\* cleanup_ref_cells: every slot named by the invoke's bindings is set to
\* None (0); the callee must be a component
cleanup_ref_cells(st, parent_comp, n) ==
    IF Cells[n.cell].kind # "comp"
    THEN Panic(st, "MalformedInvoke", "cleanup_ref_cells")
    ELSE [st EXCEPT
            !.ref_cells = [i \in DOMAIN st.ref_cells |->
                IF \E k \in 1..Len(n.ref_cells) :
                      i = Cells[n.cell].ref_cell_base + n.ref_cells[k].offset
                THEN 0 ELSE st.ref_cells[i]],
            !.ref_ports = [i \in DOMAIN st.ref_ports |->
                IF \E k \in 1..Len(n.ref_cells) :
                      \E q \in 1..Len(RefCellPorts[n.ref_cells[k].offset]) :
                          i = Cells[n.cell].ref_port_base
                                + RefCellPorts[n.ref_cells[k].offset][q]
                THEN 0 ELSE st.ref_ports[i]]]

\* the with_map entry of the invoke is kept when the invoke is done
VisitInvokeKeepsGroup(pg, st, pt, n) ==
    Only({
        IF ~unwrap_or_default(as_bool(
               st1.ports[get_global_port_idx(n.done, pt.comp)]))
        THEN Res([st1 EXCEPT !.leaf_nodes = Append(@, pt)], pt, TRUE)
        ELSE Only({
            IF st2.panic.kind # "none" THEN Res(st2, pt, FALSE)
            ELSE Advanced(pg, st2, pt) :
            st2 \in {cleanup_ref_cells(st1, pt.comp, n)}}) :
        st1 \in {IF n.comb_group # 0 /\ pt \notin DOMAIN st.with_map
                 THEN [st EXCEPT
                         !.with_map = MapInsert(@, pt, n.comb_group)]
                 ELSE st}})

VisitInvoke(pg, st, pt, n) ==
    Only({
        IF ~unwrap_or_default(as_bool(
               st1.ports[get_global_port_idx(n.done, pt.comp)]))
        THEN Res([st1 EXCEPT !.leaf_nodes = Append(@, pt)], pt, TRUE)
        ELSE Only({
            IF st2.panic.kind # "none" THEN Res(st2, pt, FALSE)
            ELSE Advanced(pg,
                          IF n.comb_group # 0
                          THEN [st2 EXCEPT !.with_map = MapRemove(@, pt)]
                          ELSE st2,
                          pt) :
            st2 \in {cleanup_ref_cells(st1, pt.comp, n)}}) :
        st1 \in {IF n.comb_group # 0 /\ pt \notin DOMAIN st.with_map
                 THEN [st EXCEPT
                         !.with_map = MapInsert(@, pt, n.comb_group)]
                 ELSE st}})

Dispatch(pg, ps, st, pt) ==
    Only({
        CASE n.t = "Seq" -> VisitSeq(pg, st, pt, n)
          [] n.t = "Par" -> VisitPar(pg, st, pt, n)
          [] n.t = "If" -> VisitIf(pg, ps, st, pt, n)
          [] n.t = "While" -> VisitWhile(pg, ps, st, pt, n)
          [] n.t = "Empty" -> Advanced(pg, st, pt)
          [] n.t = "Enable" -> VisitEnable(pg, st, pt, n)
          [] n.t = "Invoke" -> VisitInvoke(pg, st, pt, n) :
        n \in {NodesOf(pg)[pt.node]}})

\* a cursor without successor finishes the component, fanned out or not
FinishedIgnoresParMap(pg, d) ==
    /\ ~d.retain
    /\ get_next(pg, d.pt) = 0

\* the component has finished: no successor, and not a par still fanned out
Finished(pg, d) ==
    /\ ~d.retain
    /\ get_next(pg, d.pt) = 0
    /\ \/ NodesOf(pg)[d.pt.node].t # "Par"
       \/ d.pt \notin DOMAIN d.st.par_map

\* every control point is dispatched, whatever its component's go and done
VisitNodeUngated(pg, ps, st, pt) ==
    Only({
         IF d.st.panic.kind # "none" THEN d.st
         ELSE IF Finished(pg, d)
         THEN [d.st EXCEPT
                 !.set_done = Append(@, get_comp_done(pt.comp)),
                 !.out = Append(@, ControlPoint(pt.comp,
                                                ControlOf(pg, pt.comp)))]
         ELSE IF d.retain THEN [d.st EXCEPT !.out = Append(@, d.pt)]
         ELSE d.st :
         d \in {Dispatch(pg, ps, st, pt)}})

\* the control point of a finished component stays where it finished
VisitNodeNotReseeded(pg, ps, st, pt) ==
    IF \/ ~unwrap_or_default(as_bool(st.ports[get_comp_go(pt.comp)]))
       \/ unwrap_or_default(as_bool(st.ports[get_comp_done(pt.comp)]))
    THEN [st EXCEPT !.out = Append(@, pt)]
    ELSE Only({
         IF d.st.panic.kind # "none" THEN d.st
         ELSE IF Finished(pg, d)
         THEN [d.st EXCEPT
                 !.set_done = Append(@, get_comp_done(pt.comp)),
                 !.out = Append(@, d.pt)]
         ELSE IF d.retain THEN [d.st EXCEPT !.out = Append(@, d.pt)]
         ELSE d.st :
         d \in {Dispatch(pg, ps, st, pt)}})

\* the closure given to retain_mut, applied to one control point
VisitNode(pg, ps, st, pt) ==
    IF \/ ~unwrap_or_default(as_bool(st.ports[get_comp_go(pt.comp)]))
       \/ unwrap_or_default(as_bool(st.ports[get_comp_done(pt.comp)]))
    THEN [st EXCEPT !.out = Append(@, pt)]
    ELSE Only({
         IF d.st.panic.kind # "none" THEN d.st
         ELSE IF Finished(pg, d)
         THEN [d.st EXCEPT
                 !.set_done = Append(@, get_comp_done(pt.comp)),
                 !.out = Append(@, ControlPoint(pt.comp,
                                                ControlOf(pg, pt.comp)))]
         ELSE IF d.retain THEN [d.st EXCEPT !.out = Append(@, d.pt)]
         ELSE d.st :
         d \in {Dispatch(pg, ps, st, pt)}})

RECURSIVE RetainMut(_, _, _, _, _)
RetainMut(pg, ps, st, v, i) ==
    IF st.panic.kind # "none" \/ i > Len(v) THEN st
    ELSE Only({RetainMut(pg, ps, t, v, i + 1) :
               t \in {VisitNode(pg, ps, st, v[i])}})

AdvanceControl(pg, ps, pm, v, pmap, wmap, rcs, rps) ==
    RetainMut(pg, ps,
              [ports |-> pm, par_map |-> pmap, with_map |-> wmap,
               new_nodes |-> <<>>, leaf_nodes |-> <<>>, set_done |-> <<>>,
               out |-> <<>>, panic |-> NoOutcome, ref_cells |-> rcs,
               ref_ports |-> rps],
              v, 1)

-----------------------------------------------------------------------------
(* step, parts (b) and (c), and the bundle of part (d) *)

undef_assigned_ports(pm) ==
    [p \in DOMAIN pm |-> IF pm[p].k = "I" THEN pm[p] ELSE Undef]

undef_all_ports(pm) == [p \in DOMAIN pm |-> Undef]

set_root_go_high(pm) ==
    [pm EXCEPT ![get_comp_go(RootCell)] = Implicit(1)]

RECURSIVE RaiseDone(_, _, _)
RaiseDone(pm, sd, i) ==
    IF i > Len(sd) THEN pm
    ELSE RaiseDone([pm EXCEPT ![sd[i]] = Implicit(1)], sd, i + 1)

\* the go port of a leaf: the group's go hole or the invoke's go
LeafGo(pg, leaf) ==
    Only({IF n.t = "Enable" THEN Groups[n.group].go ELSE n.go :
          n \in {NodesOf(pg)[leaf.node]}})

\* go of every leaf is set high
RECURSIVE RaiseLeafGo(_, _, _, _)
RaiseLeafGo(pg, pm, leaves, i) ==
    IF i > Len(leaves) THEN pm
    ELSE RaiseLeafGo(pg,
            [pm EXCEPT ![get_global_port_idx(LeafGo(pg, leaves[i]),
                                             leaves[i].comp)] = Implicit(1)],
            leaves, i + 1)

\* one binding of intialize_ref_cells, on refs = [ref_cells, ref_ports,
\* panic] (the two maps and the panic, if any): the ref-cell slot, then one
\* ref-port slot per port of the supplied cell (a cell of the caller, never
\* itself a ref cell here); the arities must agree
BindRef(refs, parent_comp, n, b) ==
    Only({
        IF Len(RefCellPorts[b.offset]) # Len(LocalPorts(b.cell))
        THEN [r1 EXCEPT !.panic = "AssertEq"]
        ELSE [r1 EXCEPT !.ref_ports = [i \in DOMAIN r1.ref_ports |->
                IF \E q \in 1..Len(RefCellPorts[b.offset]) :
                      i = Cells[n.cell].ref_port_base
                            + RefCellPorts[b.offset][q]
                THEN get_global_port_idx(
                        LocalPorts(b.cell)[
                            CHOOSE q \in 1..Len(RefCellPorts[b.offset]) :
                                i = Cells[n.cell].ref_port_base
                                      + RefCellPorts[b.offset][q]],
                        parent_comp)
                ELSE r1.ref_ports[i]]] :
        r1 \in {[refs EXCEPT
                   !.ref_cells[Cells[n.cell].ref_cell_base + b.offset]
                       = b.cell]}})

RECURSIVE BindRefs(_, _, _, _)
BindRefs(refs, parent_comp, n, k) ==
    IF refs.panic # "none" \/ k > Len(n.ref_cells) THEN refs
    ELSE Only({BindRefs(r, parent_comp, n, k + 1) :
               r \in {BindRef(refs, parent_comp, n, n.ref_cells[k])}})

intialize_ref_cells(refs, parent_comp, n) ==
    IF Len(n.ref_cells) = 0 THEN refs
    ELSE IF Cells[n.cell].kind # "comp"
    THEN [refs EXCEPT !.panic = "MalformedInvoke"]
    ELSE BindRefs(refs, parent_comp, n, 1)

\* the bindings of every leaf Invoke are installed
RECURSIVE BindLeaves(_, _, _, _)
BindLeaves(pg, refs, leaves, i) ==
    IF refs.panic # "none" \/ i > Len(leaves) THEN refs
    ELSE Only({BindLeaves(pg, r, leaves, i + 1) :
               r \in {IF n.t # "Invoke" THEN refs
                      ELSE intialize_ref_cells(refs, leaves[i].comp, n) :
                      n \in {NodesOf(pg)[leaves[i].node]}}})

\* all the orders in which a set can be iterated
Orders(S) ==
    {f \in [1..Cardinality(S) -> S] :
        \A i, j \in 1..Cardinality(S) : i # j => f[i] # f[j]}

\* the scheduled assignments of a leaf: a group with its interface ports,
\* or the assignments of an invoke without interface ports
LeafEntry(pg, leaf) ==
    Only({IF n.t = "Enable" THEN GroupEntry(leaf.comp, n.group)
          ELSE ScheduledAssignments(leaf.comp, n.assignments, FALSE, 0, 0) :
          n \in {NodesOf(pg)[leaf.node]}})

\* only the first leaf's group is scheduled
get_assignments_first_leaf(pg, leaves, wmap, worder) ==
    [i \in 1..(IF Len(leaves) > 0 THEN 1 ELSE 0) |->
        LeafEntry(pg, leaves[i])]

\* the continuous assignments are left out
get_assignments_without_continuous(pg, leaves, wmap, worder) ==
    [i \in 1..Len(leaves) |-> LeafEntry(pg, leaves[i])]
    \o [i \in 1..Len(worder) |->
        CombEntry(worder[i].comp, wmap[worder[i]])]

\* get_assignments: leaves, then continuous assignments, then the with
\* groups in the iteration order worder of with_map
get_assignments(pg, leaves, wmap, worder) ==
    [i \in 1..Len(leaves) |-> LeafEntry(pg, leaves[i])]
    \o [i \in 1..Len(Programs[pg].cont) |->
        ScheduledAssignments(RootCell, Programs[pg].cont[i], FALSE, 0, 0)]
    \o [i \in 1..Len(worder) |->
        CombEntry(worder[i].comp, wmap[worder[i]])]

is_done_or_undef(pm) == unwrap_or_true(as_bool(pm[get_root_done]))

is_done(pm) == unwrap_or_default(as_bool(pm[get_root_done]))

-----------------------------------------------------------------------------
(* The simulator: Environment::new, Simulator::new, run_program and step *)

CvIdle == [pc |-> "idle"]
LayIdle == [pc |-> "idle"]
VisIdle == [pc |-> "idle"]
GeIdle == [pc |-> "idle"]
LegIdle == [pc |-> "idle"]

\* the port map after Environment::new and Simulator::new
InitPorts == set_root_go_high([p \in PortIdx |-> Undef])

InitSim(pgs, start) ==
    /\ prog \in pgs
    /\ ports = InitPorts
    /\ prim = PrimInit
    /\ vec = IF start = "check" THEN SeedPC(prog) ELSE <<>>
    /\ par_map = EmptyMap
    /\ with_map = EmptyMap
    /\ pc = start
    /\ leaf_nodes = <<>>
    /\ set_done = <<>>
    /\ cursor = 0
    /\ tick_log = <<>>
    /\ step_ret = NoOutcome
    /\ rp_ret = NoOutcome
    /\ runs = 1
    /\ nsteps = 0
    /\ prev_ports = InitPorts
    /\ ref_cells = NoRefCells
    /\ ref_ports = NoRefPorts

Init ==
    /\ InitSim(1..NProgs, "check")
    /\ cv = CvIdle
    /\ lay = LayIdle
    /\ vis = VisIdle
    /\ ge = GeIdle
    /\ leg = LegIdle

\* run_program's loop head: return Ok when the root's done is high,
\* otherwise call step
RunProgramLoop ==
    /\ pc = "check"
    /\ IF is_done(ports)
       THEN /\ rp_ret' = Ok
            /\ pc' = "returned"
            /\ UNCHANGED <<step_ret, tick_log, nsteps, prev_ports>>
       ELSE /\ pc' = "advance"
            /\ step_ret' = NoOutcome
            /\ tick_log' = <<>>
            /\ nsteps' = IF nsteps < MaxSteps THEN nsteps + 1 ELSE nsteps
            /\ prev_ports' = ports
            /\ UNCHANGED rp_ret
    /\ UNCHANGED <<prog, ports, prim, vec, par_map, with_map, leaf_nodes,
                   set_done, cursor, runs, cv, lay, vis,
                   ge, leg, ref_cells, ref_ports>>

\* step (a): the walk over the control points; a panic aborts the process
StepAdvance ==
    /\ pc = "advance"
    /\ \E st \in {AdvanceControl(prog, prim, ports, vec, par_map, with_map,
                                 ref_cells, ref_ports)} :
           /\ ports' = st.ports
           /\ IF st.panic.kind # "none"
              THEN /\ step_ret' = st.panic
                   /\ rp_ret' = st.panic
                   /\ pc' = "aborted"
                   /\ UNCHANGED <<vec, par_map, with_map, leaf_nodes,
                                  set_done, ref_cells, ref_ports>>
              ELSE /\ vec' = st.out \o st.new_nodes
                   /\ par_map' = st.par_map
                   /\ with_map' = st.with_map
                   /\ leaf_nodes' = st.leaf_nodes
                   /\ set_done' = st.set_done
                   /\ ref_cells' = st.ref_cells
                   /\ ref_ports' = st.ref_ports
                   /\ pc' = "reset"
                   /\ UNCHANGED <<step_ret, rp_ret>>
    /\ UNCHANGED <<prog, prim, cursor, tick_log, runs, nsteps, prev_ports,
                   cv, lay, vis, ge, leg>>

\* step (b): undefine all ports, re-assert the root's go, raise the done of
\* the components that finished
StepReset ==
    /\ pc = "reset"
    /\ ports' = RaiseDone(set_root_go_high(undef_all_ports(ports)),
                          set_done, 1)
    /\ pc' = "leaf_go"
    /\ UNCHANGED <<prog, prim, vec, par_map, with_map, leaf_nodes, set_done,
                   cursor, tick_log, step_ret, rp_ret, runs, nsteps,
                   prev_ports, cv, lay, vis, ge, leg, ref_cells, ref_ports>>

\* step (c): raise the go of every leaf and install the bindings of the
\* leaf invokes; a malformed invoke aborts the process
StepLeafGo ==
    /\ pc = "leaf_go"
    /\ ports' = RaiseLeafGo(prog, ports, leaf_nodes, 1)
    /\ \E r \in {BindLeaves(prog, [ref_cells |-> ref_cells,
                                   ref_ports |-> ref_ports,
                                   panic |-> "none"], leaf_nodes, 1)} :
           /\ ref_cells' = r.ref_cells
           /\ ref_ports' = r.ref_ports
           /\ IF r.panic = "none"
              THEN /\ pc' = "converge"
                   /\ UNCHANGED <<step_ret, rp_ret>>
              ELSE /\ pc' = "aborted"
                   /\ step_ret' = Outcome("Panic", r.panic,
                                          "intialize_ref_cells")
                   /\ rp_ret' = Outcome("Panic", r.panic,
                                        "intialize_ref_cells")
    /\ UNCHANGED <<prog, prim, vec, par_map, with_map, leaf_nodes, set_done,
                   cursor, tick_log, runs, nsteps, prev_ports, cv, lay, vis,
                   ge, leg>>

\* step (d): the main convergence; an error is returned with `?`
StepConverge ==
    /\ pc = "converge"
    /\ \E worder \in Orders(DOMAIN with_map) :
         \E r \in {simulate_combinational(ports, prim,
                     get_assignments(prog, leaf_nodes, with_map, worder))} :
             /\ ports' = r.ports
             /\ IF r.err.what = "none"
                THEN /\ pc' = "tick"
                     /\ cursor' = 1
                     /\ UNCHANGED <<step_ret, rp_ret>>
                ELSE IF r.err.what = "ConflictingAssignments"
                THEN /\ pc' = "returned"
                     /\ step_ret' = Outcome("Err", r.err.what, "converge")
                     /\ rp_ret' = Outcome("Err", r.err.what, "converge")
                     /\ UNCHANGED cursor
                ELSE /\ pc' = "aborted"
                     /\ step_ret' = Outcome("Panic", r.err.what,
                                            "converge")
                     /\ rp_ret' = Outcome("Panic", r.err.what,
                                          "converge")
                     /\ UNCHANGED cursor
    /\ UNCHANGED <<prog, prim, vec, par_map, with_map, leaf_nodes, set_done,
                   tick_log, runs, nsteps, prev_ports, cv, lay, vis,
                   ge, leg, ref_cells,
                   ref_ports>>

\* the match on the cell ledger: exec_cycle runs on primitives only
ticks_registers(c) == Cells[c].kind = "reg"

ticks(c) == Cells[c].kind # "comp"

\* step (e): one iteration of the loop over cells.values_mut()
StepTick ==
    /\ pc = "tick"
    /\ cursor <= NCells
    /\ LET r == exec_cycle(ports, prim, cursor)
           last == cursor = NCells
       IN  IF ticks(cursor) /\ r.err # "none"
           THEN /\ pc' = "returned"
                /\ step_ret' = Outcome("Err", r.err, "exec_cycle")
                /\ rp_ret' = Outcome("Err", r.err, "exec_cycle")
                /\ tick_log' = Append(tick_log, cursor)
                /\ UNCHANGED <<prim, cursor>>
           ELSE /\ prim' = IF ticks(cursor) THEN r.prim
                           ELSE prim
                /\ tick_log' = IF ticks(cursor)
                               THEN Append(tick_log, cursor) ELSE tick_log
                /\ cursor' = cursor + 1
                /\ pc' = IF last THEN "check" ELSE "tick"
                /\ step_ret' = IF last THEN Ok ELSE step_ret
                /\ UNCHANGED rp_ret
    /\ UNCHANGED <<prog, ports, vec, par_map, with_map, leaf_nodes, set_done,
                   runs, nsteps, prev_ports, cv, lay, vis,
                   ge, leg, ref_cells, ref_ports>>

\* the host calls run_program again after it returned Ok
RunAgain ==
    /\ pc = "returned"
    /\ rp_ret.kind = "Ok"
    /\ runs < MaxRuns
    /\ runs' = runs + 1
    /\ rp_ret' = NoOutcome
    /\ nsteps' = 0
    /\ pc' = "check"
    /\ UNCHANGED <<prog, ports, prim, vec, par_map, with_map, leaf_nodes,
                   set_done, cursor, tick_log, step_ret, prev_ports, cv,
                   lay, vis, ge, leg, ref_cells, ref_ports>>

Next ==
    \/ RunProgramLoop
    \/ StepAdvance
    \/ StepReset
    \/ StepLeafGo
    \/ StepConverge
    \/ StepTick
    \/ RunAgain

Spec == Init /\ [][Next]_vars

-----------------------------------------------------------------------------
(* step and run_program as functions of the simulator state                *)
(* s = [ports, prim, vec, par_map, with_map, ref_cells, ref_ports,         *)
(* nsteps, ret], used to run a                                             *)
(* second program beside the one the simulator is running                  *)

SimStart(pg) ==
    [ports |-> InitPorts, prim |-> PrimInit,
     vec |-> SeedPC(pg),
     par_map |-> EmptyMap, with_map |-> EmptyMap,
     ref_cells |-> NoRefCells, ref_ports |-> NoRefPorts, nsteps |-> 0,
     ret |-> NoOutcome]

\* the loop over cells.values_mut(): exec_cycle of every primitive
RECURSIVE TickCells(_, _, _)
TickCells(pm, ps, c) ==
    IF c > NCells THEN [prim |-> ps, err |-> "none"]
    ELSE IF ~ticks(c) THEN TickCells(pm, ps, c + 1)
    ELSE Only({IF r.err # "none" THEN r ELSE TickCells(pm, r.prim, c + 1) :
               r \in {exec_cycle(pm, ps, c)}})

\* the port map handed to the main convergence: reset, done of the
\* finished components, go of the leaves
CycleStart(pg, st) ==
    RaiseLeafGo(pg,
        RaiseDone(set_root_go_high(undef_all_ports(st.ports)),
                  st.set_done, 1),
        st.leaf_nodes, 1)

step(pg, s) ==
    Only({
        IF st.panic.kind # "none"
        THEN [s EXCEPT !.ports = st.ports, !.ret = st.panic]
        ELSE Only({
            IF b.panic # "none"
            THEN [s EXCEPT !.ret = Outcome("Panic", b.panic,
                                           "intialize_ref_cells")]
            ELSE IF r.err.what # "none"
            THEN [s EXCEPT
                    !.ports = r.ports,
                    !.ret = Outcome(IF r.err.what = "ConflictingAssignments"
                                    THEN "Err" ELSE "Panic",
                                    r.err.what, "converge")]
            ELSE Only({
                IF t.err # "none"
                THEN [s EXCEPT !.ports = r.ports,
                               !.ret = Outcome("Err", t.err, "exec_cycle")]
                ELSE [ports |-> r.ports, prim |-> t.prim,
                      vec |-> st.out \o st.new_nodes,
                      par_map |-> st.par_map, with_map |-> st.with_map,
                      ref_cells |-> b.ref_cells, ref_ports |-> b.ref_ports,
                      nsteps |-> s.nsteps + 1, ret |-> Ok] :
                t \in {TickCells(r.ports, s.prim, 1)}}) :
            r \in {simulate_combinational(CycleStart(pg, st), s.prim,
                      get_assignments(pg, st.leaf_nodes, st.with_map,
                         CHOOSE f \in Orders(DOMAIN st.with_map) : TRUE))},
            b \in {BindLeaves(pg, [ref_cells |-> st.ref_cells,
                                  ref_ports |-> st.ref_ports,
                                  panic |-> "none"], st.leaf_nodes, 1)}}) :
        st \in {AdvanceControl(pg, s.prim, s.ports, s.vec, s.par_map,
                               s.with_map, s.ref_cells, s.ref_ports)}})

\* run_program, giving up after fuel steps
RECURSIVE run_program(_, _, _)
run_program(pg, s, fuel) ==
    IF is_done(s.ports) THEN [s EXCEPT !.ret = Ok]
    ELSE IF fuel = 0 THEN [s EXCEPT !.ret = NoOutcome]
    ELSE Only({IF t.ret.kind # "Ok" THEN t
               ELSE run_program(pg, t, fuel - 1) :
               t \in {step(pg, s)}})

-----------------------------------------------------------------------------
(* simulate_combinational on its own: the loop runs pass by pass on a      *)
(* bundle and a starting port map drawn from bounded sets, and is then     *)
(* run a second time on the port map it left.                              *)

\* the groups of the entry component (the last group is the
\* sub-component's) and the combinational groups
EntryPool ==
    {GroupEntry(RootCell, g) : g \in 1..(Len(Groups) - 1)}
    \cup {CombEntry(RootCell, cg) : cg \in 1..Len(CombGroups)}

Bundles == UNION {[1..n -> EntryPool] : n \in 0..MaxBundle}

\* values left in the port map before the convergence starts
StalePorts == {
    <<1, Undef>>,
    <<1, Implicit(0)>>,
    <<24, Assigned(2, 17)>>,
    <<16, Implicit(2)>>,
    <<4, Implicit(1)>>,
    <<4, Implicit(0)>> }

StartPorts(root_go, group_go, stale) ==
    [p \in PortIdx |->
        IF p = stale[1] /\ is_def(stale[2]) THEN stale[2]
        ELSE IF p = CompGo /\ root_go THEN Implicit(1)
        ELSE IF group_go /\ p \in {Groups[g].go : g \in 1..Len(Groups)}
        THEN Implicit(1)
        ELSE Undef]

CvNew ==
    [pc |-> "new", ports |-> [p \in PortIdx |-> Undef],
     start |-> [p \in PortIdx |-> Undef], ps |-> PrimInit, bundle |-> <<>>,
     run |-> 1, snap |-> [p \in PortIdx |-> Undef], fired |-> {},
     log |-> {},
     err |-> NoErr, passes |-> 0, rechanged |-> FALSE,
     asg |-> [p \in PortIdx |-> Undef],
     alt |-> [set |-> FALSE, ports |-> [p \in PortIdx |-> Undef],
              err |-> NoErr, order |-> <<>>]]

InitConv ==
    /\ InitSim({1}, "off")
    /\ lay = LayIdle
    /\ vis = VisIdle
    /\ ge = GeIdle
    /\ leg = LegIdle
    /\ cv = CvNew

\* simulate_combinational is called on a bundle, a port map and registers;
\* the entry component's go is high, as step leaves it, or low (a stale
\* port), and r1 is as reset or as a write of 1 leaves it
ConvStart ==
    /\ cv.pc = "new"
    /\ \E root_go \in {TRUE}, group_go \in BOOLEAN, stale \in StalePorts,
          b \in Bundles, r1 \in 0..1 :
         cv' = [cv EXCEPT
                  !.pc = "loop",
                  !.ports = StartPorts(root_go, group_go, stale),
                  !.start = StartPorts(root_go, group_go, stale),
                  !.ps = [PrimInit EXCEPT ![5] = [val |-> r1, done |-> r1]],
                  !.bundle = b]
    /\ UNCHANGED <<simVars, lay, vis, ge, leg>>

\* every pass but the last defines a port that was undefined or changes the
\* output of a primitive, so the loop makes at most PassBound passes
PassBound == NPorts + 1

\* one iteration of the while loop of simulate_combinational
ConvPass ==
    /\ cv.pc = "loop"
    /\ LET r == ConvIter(cv.ports, cv.ps, cv.bundle)
       IN cv' = [cv EXCEPT
                   !.ports = r.ports,
                   !.fired = @ \cup r.fired,
                   !.log = r.log,
                   !.err = r.err,
                   !.pc = IF r.err.what # "none" THEN "err"
                          ELSE IF r.has_changed THEN "loop" ELSE "done",
                   !.passes = IF @ <= PassBound THEN @ + 1 ELSE @,
                   !.rechanged = @ \/ (cv.run = 2 /\ r.has_changed),
                   !.asg = r.assigned]
    /\ UNCHANGED <<simVars, lay, vis, ge, leg>>

\* simulate_combinational is called again with the same bundle
ConvAgain ==
    /\ cv.pc = "done"
    /\ cv.run = 1
    /\ ~cv.alt.set
    /\ cv' = [cv EXCEPT !.run = 2, !.pc = "loop", !.snap = cv.ports,
                        !.fired = {}, !.log = {}, !.passes = 0]
    /\ UNCHANGED <<simVars, lay, vis, ge, leg>>

\* simulate_combinational, given up after fuel passes
RECURSIVE ConvergeWithin(_, _, _, _)
ConvergeWithin(pm, ps, bundle, fuel) ==
    IF fuel = 0
    THEN [ports |-> pm, err |-> Error("PassBound", Undef, Undef)]
    ELSE Only({IF r.err.what # "none" THEN [ports |-> r.ports, err |-> r.err]
               ELSE IF r.has_changed
               THEN ConvergeWithin(r.ports, ps, bundle, fuel - 1)
               ELSE [ports |-> r.ports, err |-> NoErr] :
               r \in {ConvIter(pm, ps, bundle)}})

\* simulate_combinational is called on the same starting port map with the
\* entries of the bundle in the same and in the reversed order
ConvReorder ==
    /\ cv.pc \in {"done", "err"}
    /\ cv.run = 1
    /\ ~cv.alt.set
    /\ \E f \in {[i \in 1..Len(cv.bundle) |-> i],
                  [i \in 1..Len(cv.bundle) |-> Len(cv.bundle) + 1 - i]} :
         \E r \in {ConvergeWithin(cv.start, cv.ps,
                       [i \in 1..Len(cv.bundle) |-> cv.bundle[f[i]]],
                       PassBound)} :
            cv' = [cv EXCEPT !.alt = [set |-> TRUE, ports |-> r.ports,
                                      err |-> r.err, order |-> f]]
    /\ UNCHANGED <<simVars, lay, vis, ge, leg>>

NextConv == ConvStart \/ ConvPass \/ ConvAgain \/ ConvReorder

SpecConv == InitConv /\ [][NextConv]_vars

-----------------------------------------------------------------------------
(* Environment::new on its own: the layout of a component hierarchy into   *)
(* the dense index spaces.  Indices are 0-based here, as in the source: a  *)
(* push returns the length of the map before the push.                     *)
(*                                                                         *)
(* A context has three component definitions, 1 (the entry point), 2 and  *)
(* 3.  A cell definition is 0 for a primitive and d > 0 for an instance of *)
(* definition d.  Definition-local offsets are dense: signature ports,     *)
(* then the group holes, then the ports of each cell in cell order.        *)

SigPorts == 2       \* go and done
PrimPorts == 2      \* ports of a primitive cell
RefPorts == 1       \* ports of a ref cell

SeqsUpTo(S, n) == UNION {[1..k -> S] : k \in 0..n}

Contexts ==
    {<<[groups |-> ng[1], go_first |-> gf, cells |-> c1, refs |-> nr[1]],
       [groups |-> ng[2], go_first |-> TRUE, cells |-> c2, refs |-> nr[2]],
       [groups |-> 0, go_first |-> TRUE, cells |-> c3, refs |-> nr[3]]>> :
        ng \in [1..2 -> 0..1], gf \in BOOLEAN, nr \in [1..3 -> 0..1],
        c1 \in SeqsUpTo({0, 2, 3}, MaxCellDefs),
        c2 \in SeqsUpTo({0, 3}, 1), c3 \in SeqsUpTo({0}, 1)}

\* number of ports a cell definition has in its parent's definition
CellPorts(kind) == IF kind = 0 THEN PrimPorts ELSE SigPorts

RECURSIVE SumPorts(_, _)
SumPorts(cells, n) ==
    IF n = 0 THEN 0 ELSE SumPorts(cells, n - 1) + CellPorts(cells[n])

\* definition-local offsets
LocalGroupGo(def, g) == SigPorts + 2 * g + (IF def.go_first THEN 0 ELSE 1)
LocalGroupDone(def, g) == SigPorts + 2 * g + (IF def.go_first THEN 1 ELSE 0)
LocalCellPort(def, i, j) ==
    SigPorts + 2 * def.groups + SumPorts(def.cells, i - 1) + j
LocalCell(i) == i - 1
LocalRefCell(r) == r
LocalRefPort(r, j) == r * RefPorts + j

\* env = [ports, cells, ref_cells, ref_ports, checks]: the lengths of the
\* four maps and the pairs <<base + local, pushed index>> met so far
Checked(env, what, expected, actual) ==
    [env EXCEPT !.checks = Append(@, [what |-> what, expected |-> expected,
                                      actual |-> actual])]

PushPort(env, expected) ==
    [Checked(env, "port", expected, env.ports) EXCEPT !.ports = @ + 1]
PushCell(env, expected) ==
    [Checked(env, "cell", expected, env.cells) EXCEPT !.cells = @ + 1]
PushRefCell(env, expected) ==
    [Checked(env, "ref_cell", expected, env.ref_cells)
        EXCEPT !.ref_cells = @ + 1]
PushRefPort(env, expected) ==
    [Checked(env, "ref_port", expected, env.ref_ports)
        EXCEPT !.ref_ports = @ + 1]

\* CellLedger::new_comp: the bases are the next free indices; the cell base
\* skips the component's own ledger entry
new_comp(env) ==
    [port_base |-> env.ports, cell_base |-> env.cells + 1,
     ref_cell_base |-> env.ref_cells, ref_port_base |-> env.ref_ports]

RECURSIVE LayoutSignature(_, _, _)
LayoutSignature(env, bases, j) ==
    IF j >= SigPorts THEN env
    ELSE Only({LayoutSignature(e, bases, j + 1) :
               e \in {PushPort(env, bases.port_base + j)}})

\* the two holes of one group: the first push is called go, the second done
LayoutGroup(env, def, bases, g) ==
    LET go == env.ports
        done == env.ports + 1
        go_actual == bases.port_base + LocalGroupGo(def, g)
        done_actual == bases.port_base + LocalGroupDone(def, g)
        pushed == [env EXCEPT !.ports = @ + 2]
    IN  IF LocalGroupGo(def, g) < LocalGroupDone(def, g)
        THEN Checked(Checked(pushed, "port", done_actual, done),
                     "port", go_actual, go)
        ELSE Checked(Checked(pushed, "port", done_actual, go),
                     "port", go_actual, done)

RECURSIVE LayoutGroups(_, _, _, _)
LayoutGroups(env, def, bases, g) ==
    IF g >= def.groups THEN env
    ELSE Only({LayoutGroups(e, def, bases, g + 1) :
               e \in {LayoutGroup(env, def, bases, g)}})

RECURSIVE LayoutPrimPorts(_, _, _, _, _)
LayoutPrimPorts(env, def, bases, i, j) ==
    IF j >= PrimPorts THEN env
    ELSE Only({LayoutPrimPorts(e, def, bases, i, j + 1) :
               e \in {PushPort(env,
                               bases.port_base + LocalCellPort(def, i, j))}})

\* the ports a sub-component cell has in its parent are the signature
\* ports pushed by the child's own layout, at the child's port base
RECURSIVE SubCellPorts(_, _, _, _, _, _)
SubCellPorts(env, def, bases, i, child_bases, j) ==
    IF j >= SigPorts THEN env
    ELSE Only({SubCellPorts(e, def, bases, i, child_bases, j + 1) :
               e \in {Checked(env, "port",
                              bases.port_base + LocalCellPort(def, i, j),
                              child_bases.port_base + j)}})

RECURSIVE LayoutRefPorts(_, _, _, _)
LayoutRefPorts(env, bases, r, j) ==
    IF j >= RefPorts THEN env
    ELSE Only({LayoutRefPorts(e, bases, r, j + 1) :
               e \in {PushRefPort(env,
                          bases.ref_port_base + LocalRefPort(r, j))}})

RECURSIVE LayoutRefs(_, _, _, _)
LayoutRefs(env, def, bases, r) ==
    IF r >= def.refs THEN env
    ELSE Only({LayoutRefs(e, def, bases, r + 1) :
               e \in {PushRefCell(LayoutRefPorts(env, bases, r, 0),
                                  bases.ref_cell_base + LocalRefCell(r))}})

RECURSIVE layout_component(_, _, _, _)
RECURSIVE LayoutCells(_, _, _, _, _)

\* the loop over cell_offset_map: a primitive pushes its ports and then its
\* ledger entry; a sub-component pushes its frame and is laid out at once
LayoutCells(ctx, env, d, bases, i) ==
    IF i > Len(ctx[d].cells) THEN env
    ELSE IF ctx[d].cells[i] = 0
    THEN Only({LayoutCells(ctx, e, d, bases, i + 1) :
               e \in {PushCell(LayoutPrimPorts(env, ctx[d], bases, i, 0),
                               bases.cell_base + LocalCell(i))}})
    ELSE Only({LayoutCells(ctx, e, d, bases, i + 1) :
               e \in {Only({layout_component(ctx,
                              SubCellPorts(
                                 PushCell(env,
                                          bases.cell_base + LocalCell(i)),
                                 ctx[d], bases, i, child_bases, 0),
                              ctx[d].cells[i], child_bases) :
                            child_bases \in {new_comp(env)}})}})

layout_component(ctx, env, d, bases) ==
    Only({LayoutRefs(cells, ctx[d], bases, 0) :
          cells \in {LayoutCells(ctx,
                        LayoutGroups(LayoutSignature(env, bases, 0),
                                     ctx[d], bases, 0),
                        d, bases, 1)}})

EmptyEnv ==
    [ports |-> 0, cells |-> 0, ref_cells |-> 0, ref_ports |-> 0,
     checks |-> <<>>]

\* Environment::new: the root ledger is pushed, then laid out
EnvironmentNewLayout(ctx) ==
    layout_component(ctx, [EmptyEnv EXCEPT !.cells = 1], 1,
                     new_comp(EmptyEnv))

InitLayout ==
    /\ InitSim({1}, "off")
    /\ cv = CvIdle
    /\ vis = VisIdle
    /\ ge = GeIdle
    /\ leg = LegIdle
    /\ \E ctx \in Contexts : lay = [pc |-> "ctx", ctx |-> ctx,
                                    env |-> EmptyEnv]

EnvironmentNew ==
    /\ lay.pc = "ctx"
    /\ lay' = [lay EXCEPT !.pc = "done",
                          !.env = EnvironmentNewLayout(lay.ctx)]
    /\ UNCHANGED <<simVars, cv, vis, ge, leg>>

NextLayout == EnvironmentNew

SpecLayout == InitLayout /\ [][NextLayout]_vars

-----------------------------------------------------------------------------
(* Properties *)

RootDoneHigh == ports[CompDone].k # "U" /\ ports[CompDone].v = 1

\* C1: run_program returns Ok only when the root's done is high; at its
\* loop head it returns Ok at once when the root's done is high, without
\* another step, and otherwise executes a step
C1_RunProgramUntilRootDone ==
    /\ [](rp_ret.kind = "Ok" => RootDoneHigh)
    /\ [][pc = "check" =>
            IF RootDoneHigh
            THEN rp_ret'.kind = "Ok" /\ pc' = "returned"
            ELSE rp_ret'.kind = "none" /\ pc' = "advance"]_vars

C1_Witness ==
    /\ rp_ret.kind = "Ok"
    /\ step_ret.kind = "Ok"
    /\ runs = MaxRuns
    /\ prim[5].val = 1

\* two fired assignments to the same port with different values
Conflicting(f1, f2) == f1.dst = f2.dst /\ f1.v # f2.v

\* C2: when two assignments that fire in one convergence target the same
\* port with different values, the convergence returns
\* ConflictingAssignments; the error carries the value held by the port
\* and the assignment that hit it, and, when the port was undefined at the
\* start, these are two of the fired assignments
C2_NoSilentOverwrite ==
    (\E f1, f2 \in cv.fired : Conflicting(f1, f2)) =>
        /\ cv.pc = "err"
        /\ cv.err.what = "ConflictingAssignments"
        /\ cv.err.a1.v # cv.err.a2.v
        /\ \E f2 \in cv.fired : f2.a = cv.err.a2.src /\ f2.v = cv.err.a2.v
                /\ (is_undef(cv.start[f2.dst]) =>
                      \E f1 \in cv.fired : /\ f1.a = cv.err.a1.src
                                           /\ Conflicting(f1, f2))

\* two enabled groups write 1 and 2 to r1.in
C2_Witness ==
    /\ cv.pc = "err"
    /\ cv.bundle = <<GroupEntry(RootCell, 1), GroupEntry(RootCell, 3)>>
    /\ cv.start = StartPorts(TRUE, TRUE, <<1, Undef>>)
    /\ cv.err = Error("ConflictingAssignments", Assigned(1, 1),
                      Assigned(2, 7))

\* C3: reading an undefined condition port of an If or While makes step
\* return an UndefinedCondition error, which run_program returns too
C3_UndefinedConditionReturned ==
    step_ret.what = "UndefinedCondition" =>
        step_ret.kind = "Err" /\ rp_ret = step_ret

\* C4: every error of a convergence run inside step and every error of a
\* primitive's exec_cycle is returned by step as its Err result
C4_ErrorsReturned ==
    step_ret.what \in {"ConflictingAssignments", "PrimitiveError"} =>
        step_ret.kind = "Err"

RECURSIVE Increasing(_)
Increasing(S) ==
    IF S = {} THEN <<>>
    ELSE LET m == CHOOSE x \in S : \A y \in S : x <= y
         IN <<m>> \o Increasing(S \ {m})

\* C5: in a step that returns Ok exec_cycle has run exactly once on every
\* primitive cell in increasing cell order, and exec_cycle runs only after
\* the main convergence of the step
C5_ExecCycleOncePerStep ==
    /\ [](step_ret.kind = "Ok" => tick_log = Increasing(PrimCells))
    /\ [][(tick_log' # tick_log \/ prim' # prim) =>
            (pc = "tick" \/ (tick_log' = <<>> /\ prim' = prim))]_vars

C5_Witness ==
    /\ step_ret.kind = "Ok"
    /\ pc = "check"
    /\ prim[5].val = 1
    /\ prim[6].val = 1

SeqRange(q) == {q[i] : i \in 1..Len(q)}

\* C6: after the reset phase of a step every port is Undefined, except the
\* root's go and the done of every component scheduled as finished, which
\* are Implicit(1)
C6_CycleBoundary ==
    pc = "leaf_go" =>
        \A p \in PortIdx :
            ports[p] = IF p = CompGo \/ p \in SeqRange(set_done)
                       THEN Implicit(1) ELSE Undef

C6_Witness ==
    /\ pc = "leaf_go"
    /\ set_done = <<CompDone>>
    /\ prim[5].val = 1

ParPoints ==
    {ControlPoint(RootCell, n) :
        n \in {m \in 1..Len(NodesOf(prog)) : NodesOf(prog)[m].t = "Par"}}

\* a child of the par is live: a cursor is inside the par's subtree, or
\* waits at the par to be merged
LiveAt(pt) ==
    \E i \in 1..Len(vec) :
        /\ vec[i].comp = pt.comp
        /\ vec[i].node \in Descendants(prog, pt.node) \cup {pt.node}
LiveBelow(pt) ==
    \E i \in 1..Len(vec) :
        /\ vec[i].comp = pt.comp
        /\ vec[i].node \in Descendants(prog, pt.node)

\* C8: after every step par_map holds exactly the pars that have fanned
\* out and whose children have not all been merged back
C8_ParMapIffFannedOut ==
    pc = "check" =>
        /\ DOMAIN par_map \subseteq ParPoints
        /\ \A pt \in ParPoints :
              /\ pt \in DOMAIN par_map => LiveAt(pt)
              /\ LiveBelow(pt) => pt \in DOMAIN par_map

\* C9: a second run of simulate_combinational on the port map left by a
\* successful run changes no port, reports no change and returns no error
C9_ConvergenceIdempotent ==
    cv.run = 2 =>
        /\ cv.ports = cv.snap
        /\ cv.pc # "err"
        /\ ~cv.rechanged
        /\ cv.passes <= 1

\* the first run needed a dangling done to be resolved and several passes
C9_Witness ==
    /\ cv.run = 2
    /\ cv.pc = "done"
    /\ cv.ports[24].k = "A"
    /\ cv.ports[25].k = "A"
    /\ \E p \in done_ports(cv.bundle) : cv.ports[p] = Implicit(0)

\* C10: simulate_combinational terminates: it never makes more than
\* PassBound passes before a pass reports no change or an error is returned
C10_ConvergenceTerminates ==
    /\ cv.passes <= PassBound
    /\ cv.passes = PassBound => cv.pc \in {"done", "err"}

\* a convergence that needed five passes
C10_Witness ==
    /\ cv.pc = "done"
    /\ cv.run = 1
    /\ cv.passes >= 5

\* C11: the assignments of a convergence pass only add information: a
\* port that is defined when the pass starts still holds the same value
\* after the pass's assignments, whether or not the pass returns an error
C11_AssignmentsOnlyAddInformation ==
    [][cv.pc = "loop" =>
         \A p \in PortIdx :
            is_def(cv.ports[p]) => cv'.asg[p] = cv.ports[p]]_vars

\* an assignment fired on a port that already held its value, and another
\* one defined a port that was undefined at the start
C11_Witness ==
    /\ cv.pc = "done"
    /\ cv.run = 2
    /\ \E f \in cv.fired : is_def(cv.snap[f.dst]) /\ cv.asg[f.dst].v = f.v
    /\ \E p \in PortIdx : is_undef(cv.start[p]) /\ cv.asg[p].k = "A"

\* C12: when neither order of the entries meets a conflicting write,
\* simulate_combinational has the same outcome for both orders and, when
\* it is Ok, leaves the same value at every port
C12_OrderIndependent ==
    (/\ cv.alt.set
     /\ cv.run = 1
     /\ cv.err.what # "ConflictingAssignments"
     /\ cv.alt.err.what # "ConflictingAssignments") =>
        /\ cv.alt.err.what = cv.err.what
        /\ cv.pc = "done" =>
              \A p \in PortIdx : OptionEq(cv.ports[p], cv.alt.ports[p])

\* pairs of programs par(a, b) and par(b, a) whose arms write disjoint
\* ports
ParSwap == (3 :> 16) @@ (16 :> 3) @@ (17 :> 18) @@ (18 :> 17)

\* C13: when par(a, b) has run to completion, running par(b, a) from the
\* same initial environment completes after the same number of steps with
\* the same port map and the same primitive state
C13_ParCommutes ==
    (/\ pc = "returned"
     /\ rp_ret.kind = "Ok"
     /\ runs = 1
     /\ prog \in DOMAIN ParSwap) =>
        \E t \in {run_program(ParSwap[prog], SimStart(ParSwap[prog]),
                               MaxSteps)} :
            /\ t.ret = Ok
            /\ t.nsteps = nsteps
            /\ t.ports = ports
            /\ t.prim = prim

\* par { seq { G1; G3 }; G2 } has completed: r1 = 2, and r2 took r1's
\* initial value
C13_Witness ==
    /\ pc = "returned"
    /\ rp_ret.kind = "Ok"
    /\ runs = 1
    /\ prog = 17
    /\ prim[5].val = 2
    /\ prim[6].val = 0

\* the done holes of the two groups of par { G1; G2 }
BothDone(pm) ==
    /\ unwrap_or_default(as_bool(pm[Groups[1].done]))
    /\ unwrap_or_default(as_bool(pm[Groups[2].done]))

\* C14, as stated: for par { enable G1; enable G2 }, when both groups'
\* done ports are high at the end of a step, the next step ends with the
\* root's done high
C14_ParDoneInOneStep ==
    (/\ pc = "check"
     /\ prog \in {3, 16}
     /\ nsteps >= 1
     /\ BothDone(prev_ports)) => RootDoneHigh

\* the simulator's state, as step and run_program take it
Cur ==
    [ports |-> ports, prim |-> prim, vec |-> vec, par_map |-> par_map,
     with_map |-> with_map, ref_cells |-> ref_cells, ref_ports |-> ref_ports,
     nsteps |-> nsteps, ret |-> NoOutcome]

\* C14, amended: when both groups' done ports are high at the end of a
\* step, the next step moves both cursors to the par and leaves the root's
\* done low, and the step after it merges them and raises the root's done
C14_ParDoneInTwoSteps ==
    (/\ pc = "check"
     /\ prog \in {3, 16}
     /\ BothDone(ports)) =>
        \E t1 \in {step(prog, Cur)} :
            /\ t1.ret = Ok
            /\ ~is_done(t1.ports)
            /\ t1.vec = <<ControlPoint(RootCell, 1),
                          ControlPoint(RootCell, 1)>>
            /\ \E t2 \in {step(prog, t1)} :
                  /\ t2.ret = Ok
                  /\ is_done(t2.ports)
                  /\ t2.par_map = EmptyMap

\* both registers were written and both groups' done ports are high
C14_Witness ==
    /\ pc = "check"
    /\ prog = 3
    /\ BothDone(ports)
    /\ nsteps = 3
    /\ prim[5].val = 1

\* the pairs <<child k, child k+1>> of the Seq nodes of a program
SeqPairs(pg) ==
    {pr \in (1..Len(NodesOf(pg))) \X (1..Len(NodesOf(pg))) :
        \E m \in 1..Len(NodesOf(pg)) :
            /\ NodesOf(pg)[m].t = "Seq"
            /\ \E k \in 1..(Len(NodesOf(pg)[m].stms) - 1) :
                  pr = <<NodesOf(pg)[m].stms[k], NodesOf(pg)[m].stms[k + 1]>>}

\* a cursor of v is at node n / at n or below it
AtNode(v, n) == \E i \in 1..Len(v) : v[i].node = n
InSubtree(v, pg, n) ==
    \E i \in 1..Len(v) : v[i].node \in Descendants(pg, n) \cup {n}

IsLeaf(n) == \E i \in 1..Len(leaf_nodes) : leaf_nodes[i].node = n

\* the done hole of an Enable node's group reads high in pm
EnableDone(pg, n, pm) ==
    NodesOf(pg)[n].t = "Enable" =>
        unwrap_or_default(as_bool(pm[Groups[NodesOf(pg)[n].group].done]))

\* C15: a cursor enters child k+1 of a Seq only in a control advancement
\* that finds a cursor at child k and, when child k is an Enable, reads its
\* group's done high; while child k+1 is a leaf no cursor is in child k;
\* seq { G1; G2 } ends with r1 = 1 and r2 = r1; the visit of an empty Seq
\* moves its cursor to the successor, and an empty Seq at the root
\* finishes the component in its first step
C15_SeqInOrder ==
    /\ [][\A pr \in SeqPairs(prog) :
            (InSubtree(vec', prog, pr[2]) /\ ~InSubtree(vec, prog, pr[2])) =>
                /\ pc = "advance"
                /\ AtNode(vec, pr[1])
                /\ EnableDone(prog, pr[1], ports)]_vars
    /\ [](\A pr \in SeqPairs(prog) :
            IsLeaf(pr[2]) => ~IsLeaf(pr[1]) /\ ~InSubtree(vec, prog, pr[1]))
    /\ []((prog = 2 /\ rp_ret.kind = "Ok") =>
            prim[5].val = 1 /\ prim[6].val = 1)
    /\ [][(prog = 19 /\ pc = "advance" /\ AtNode(vec, 2)) =>
            vec' = <<ControlPoint(RootCell, 3)>>]_vars
    /\ []((prog = 13 /\ pc = "check" /\ nsteps = 1) => RootDoneHigh)

\* G2 of seq { G1; G2 } is the leaf, and r1 has been written
C15_Witness ==
    /\ prog = 2
    /\ pc = "converge"
    /\ IsLeaf(3)
    /\ prim[5].val = 1
    /\ prim[6].val = 0

\* the nodes of a program that are of type t
NodesOfType(pg, t) ==
    {m \in 1..Len(NodesOf(pg)) : NodesOf(pg)[m].t = t}

\* C16: a control advancement that visits a While and does not abort
\* leaves its cursor at the body when the condition port reads true, with
\* the with group in with_map; when it reads false the with_map entry is
\* dropped and the cursor is at the successor of the loop (the next child
\* of the enclosing Seq, or the root of the finished component);
\* while r1 < 2 { r1 := r1 + 1 } started with r1 = 0 ends with r1 = 2
C16_WhileLoops ==
    /\ [][\A w \in NodesOfType(prog, "While") :
            (pc = "advance" /\ pc' = "reset" /\ AtNode(vec, w)) =>
                IF ReadCond(ports', NodesOf(prog)[w], RootCell) = "T"
                THEN /\ AtNode(vec', NodesOf(prog)[w].body)
                     /\ ControlPoint(RootCell, w) \in DOMAIN with_map'
                     /\ set_done' = <<>>
                ELSE /\ ControlPoint(RootCell, w) \notin DOMAIN with_map'
                     /\ IF prog = 20
                        THEN /\ vec' = <<ControlPoint(RootCell, 4)>>
                             /\ set_done' = <<>>
                        ELSE /\ vec' = <<ControlPoint(RootCell,
                                                      Programs[prog].control)>>
                             /\ set_done' = <<get_root_done>>]_vars
    /\ [](prog \in {7, 20} => prim[5].val <= 2)
    /\ []((prog \in {7, 20} /\ rp_ret.kind = "Ok") => prim[5].val = 2)
    /\ []((prog = 20 /\ rp_ret.kind = "Ok") => prim[6].val = 2)

\* the loop has run its body twice and has been left
C16_Witness ==
    /\ prog = 7
    /\ rp_ret.kind = "Ok"
    /\ prim[5].val = 2
    /\ with_map = EmptyMap
    /\ runs = 1

\* C17: a visit of an If that reads its condition leaves the cursor at
\* tbranch when the port reads 1 and at fbranch when it reads 0, never at
\* both; with the group lt.left = r1, lt.right = 2 the port reads 1 exactly
\* when r1 < 2; the successor of the If is entered only from the If's
\* branches, and the registers end as one branch followed by the successor
\* leaves them
C17_IfSelectsBranch ==
    /\ [][\A i \in NodesOfType(prog, "If") :
            (/\ pc = "advance" /\ pc' = "reset"
             /\ AtNode(vec, i)
             /\ ControlPoint(RootCell, i) \notin DOMAIN with_map) =>
                /\ ReadCond(ports', NodesOf(prog)[i], RootCell) \in {"T", "F"}
                /\ AtNode(vec', NodesOf(prog)[i].tbranch)
                      <=> ReadCond(ports', NodesOf(prog)[i], RootCell) = "T"
                /\ AtNode(vec', NodesOf(prog)[i].fbranch)
                      <=> ReadCond(ports', NodesOf(prog)[i], RootCell) = "F"
                /\ NodesOf(prog)[i].cond_group = 1 =>
                      (ReadCond(ports', NodesOf(prog)[i], RootCell) = "T"
                          <=> prim[5].val < 2)]_vars
    /\ [][(prog = 22 /\ AtNode(vec', 6) /\ ~AtNode(vec, 6)) =>
              (pc = "advance" /\ (AtNode(vec, 3) \/ AtNode(vec, 5)))]_vars
    /\ [](prog = 21 => ~AtNode(vec, 4))
    /\ [](prog = 22 => ~AtNode(vec, 4))
    /\ [](prog = 5 => ~AtNode(vec, 3))
    /\ []((prog = 5 /\ rp_ret.kind = "Ok") =>
              (prim[5].val = 1 /\ prim[6].val = 0))
    /\ []((prog = 21 /\ rp_ret.kind = "Ok") => prim[5].val = 2)
    /\ []((prog = 22 /\ rp_ret.kind = "Ok") =>
              (prim[5].val = 3 /\ prim[6].val = 2))

\* the If of program 22 took its false branch and its successor ran last
C17_Witness ==
    /\ prog = 22
    /\ rp_ret.kind = "Ok"
    /\ prim[5].val = 3
    /\ prim[6].val = 2
    /\ runs = 1

\* the cursor is about to visit node n, an If or While that converges its
\* with group during the visit
ConvergesWithGroup(n) ==
    /\ pc = "advance"
    /\ vec = <<ControlPoint(RootCell, n)>>
    /\ NodesOf(prog)[n].t \in {"If", "While"}
    /\ NodesOf(prog)[n].cond_group # 0
    /\ NodesOf(prog)[n].t = "If" =>
          ControlPoint(RootCell, n) \notin DOMAIN with_map

\* C18: whenever an If or While is about to converge its with group, every
\* port other than the go and done ports of the component is undefined, so
\* the convergence ends as it ends from the port map of a fresh cycle
C18_WithGroupStartsFromUndefined ==
    \A n \in 1..Len(NodesOf(prog)) :
        ConvergesWithGroup(n) =>
            /\ \A p \in PortIdx \ {get_comp_go(RootCell), get_root_done} :
                    is_undef(ports[p])
            /\ \A a \in {WithConv(TRUE, ports, prim, RootCell,
                                   NodesOf(prog)[n].cond_group)} :
               \A b \in {WithConv(TRUE, InitPorts, prim, RootCell,
                                   NodesOf(prog)[n].cond_group)} :
                    /\ a.err.what = b.err.what
                    /\ ReadCond(a.ports, NodesOf(prog)[n], RootCell)
                         = ReadCond(b.ports, NodesOf(prog)[n], RootCell)

\* the positions of vec that hold a cursor of component instance c
CursorsOf(v, c) == {i \in 1..Len(v) : v[i].comp = c}

\* the done port of instance c is in the set_done buffer sd
Schedules(sd, c) == \E i \in 1..Len(sd) : sd[i] = get_comp_done(c)

\* C19: the done port of a component instance is scheduled only by a
\* control advancement that leaves the re-seeded control root as the only
\* cursor of that instance and no par_map entry of that instance; an
\* advancement that leaves a par of the instance fanned out, or a second
\* cursor of the instance, does not schedule its done
C19_DoneOnlyWithoutLiveCursors ==
    /\ [][\A c \in {RootCell, SubCell} :
            (set_done' # set_done /\ Schedules(set_done', c)) =>
                /\ pc = "advance"
                /\ Cardinality(CursorsOf(vec', c)) = 1
                /\ \A i \in CursorsOf(vec', c) :
                      vec'[i] = ControlPoint(c, ControlOf(prog, c))
                /\ \A k \in DOMAIN par_map' : k.comp # c]_vars
    /\ [][\A c \in {RootCell, SubCell} :
            (/\ pc = "advance"
             /\ \/ \E k \in DOMAIN par_map' : k.comp = c
                \/ Cardinality(CursorsOf(vec', c)) > 1) =>
                ~Schedules(set_done', c)]_vars

\* both arms of par { seq { G1; G3 }; G2 } are back and done is scheduled
C19_Witness ==
    /\ prog = 17
    /\ pc = "reset"
    /\ set_done = <<get_root_done>>
    /\ par_map = EmptyMap
    /\ prim[5].val = 2
    /\ prim[6].val = 0

\* the Invoke nodes of the running program that bind ref cells
BindingInvokes == {n \in NodesOfType(prog, "Invoke") :
                     Len(NodesOf(prog)[n].ref_cells) > 0}

\* the invoke at node n is a leaf of the current step
LeafInvoke(n) ==
    \E i \in 1..Len(leaf_nodes) : leaf_nodes[i] = ControlPoint(RootCell, n)

\* every slot named by the invoke at node n holds what the caller supplies
Bound(rcs, rps, n) ==
    \A k \in 1..Len(NodesOf(prog)[n].ref_cells) :
        LET b == NodesOf(prog)[n].ref_cells[k] IN
        /\ rcs[b.offset] = b.cell
        /\ \A q \in 1..Len(RefCellPorts[b.offset]) :
              rps[RefCellPorts[b.offset][q]] = Cells[b.cell].port_base + q

-----------------------------------------------------------------------------
(* Visitor::do_pass and Control::visit (passes/visitor.rs).  The recursive  *)
(* walk is run call by call on a stack of frames; the visitor is any        *)
(* implementation of the trait: each start_x and finish_x returns Ok or     *)
(* Err as it likes and may call Changes::_change_node.                      *)

AstNode(t, children) == [t |-> t, children |-> children]

\* the namespaces visited: the control of every component by its root, the
\* children of a node in the order visit walks them (If and Ifen: tbranch,
\* fbranch; While: body)
Namespaces == <<
    [nodes |-> <<AstNode("Seq", <<2, 3>>), AstNode("Enable", <<>>),
                 AstNode("Par", <<4, 5>>), AstNode("Print", <<>>),
                 AstNode("Empty", <<>>), AstNode("If", <<7, 8>>),
                 AstNode("Enable", <<>>), AstNode("While", <<9>>),
                 AstNode("Disable", <<>>)>>,
     components |-> <<1, 6>>],
    [nodes |-> <<AstNode("Ifen", <<2, 3>>), AstNode("Enable", <<>>),
                 AstNode("Seq", <<>>)>>,
     components |-> <<1>>] >>

\* the arms of visit that return at once when start_x returns Err
Composite == {"Seq", "Par", "If", "Ifen", "While"}

Frame(node, phase, i, res) ==
    [node |-> node, phase |-> phase, i |-> i, res |-> res]

Call(f, node) == [f |-> f, node |-> node]

VisNew == [pc |-> "new"]

\* Changes::new, and the first component's control about to be visited
VisPass(ns) ==
    [pc |-> IF Len(Namespaces[ns].components) = 0 THEN "done" ELSE "visit",
     ns |-> ns, comp |-> 1,
     stack |-> IF Len(Namespaces[ns].components) = 0 THEN <<>>
               ELSE <<Frame(Namespaces[ns].components[1], "start", 1, "Ok")>>,
     new_node |-> 0,
     tree |-> [n \in 1..Len(Namespaces[ns].nodes) |-> 0],
     calls |-> <<>>,
     by |-> <<>>]

\* Changes::_change_node called (chg) during a call on node n: new_node
\* becomes Some of the control passed, here the number of the call
change_node(v, chg, n) ==
    IF chg THEN [v EXCEPT !.new_node = Len(v.by) + 1, !.by = Append(@, n)]
    ELSE v

\* match &changes.new_node { Some(c) => *self = c.clone(), None => () }
apply_new_node(v, n) ==
    IF v.new_node # 0 THEN [v EXCEPT !.tree[n] = v.new_node] ELSE v

\* visit returns r to its caller: the visit of the children of the parent
\* stops at the first Err; do_pass panics on Err and goes on to the next
\* component otherwise
visit_returns(v, r) ==
    Only({
        IF Len(rest) > 0
        THEN [v EXCEPT !.stack =
                 [rest EXCEPT ![Len(rest)] =
                    IF r = "Err" THEN Frame(@.node, "finish", @.i, "Err")
                    ELSE @]]
        ELSE IF r = "Err" THEN [v EXCEPT !.stack = rest, !.pc = "panic"]
        ELSE IF v.comp < Len(Namespaces[v.ns].components)
        THEN [v EXCEPT !.stack = <<Frame(
                                      Namespaces[v.ns].components[v.comp + 1],
                                      "start", 1, "Ok")>>,
                       !.comp = @ + 1]
        ELSE [v EXCEPT !.stack = rest, !.pc = "done"] :
        rest \in {SubSeq(v.stack, 1, Len(v.stack) - 1)}})

\* start_x has returned r: `?` leaves the visit of a composite node on
\* Err; a leaf passes r to its finish_x
start_returns(v, n, t, r) ==
    IF t \in Composite
    THEN IF r = "Err" THEN visit_returns(v, "Err")
         ELSE [v EXCEPT !.stack[Len(v.stack)] =
                  Frame(n, "children", 1, "Ok")]
    ELSE [v EXCEPT !.stack[Len(v.stack)] = Frame(n, "finish", 1, r)]

\* do_pass is called on a namespace
DoPass ==
    /\ vis.pc = "new"
    /\ \E ns \in 1..Len(Namespaces) : vis' = VisPass(ns)
    /\ UNCHANGED <<simVars, cv, lay, ge, leg>>

\* visit enters a node: start_x is called
VisitStart ==
    /\ vis.pc = "visit"
    /\ vis.stack[Len(vis.stack)].phase = "start"
    /\ \E r \in {"Ok", "Err"}, chg \in {c \in BOOLEAN :
                                        c => Len(vis.by) < MaxChanges} :
         \E n \in {vis.stack[Len(vis.stack)].node} :
           \E v \in {change_node([vis EXCEPT !.calls =
                                    Append(@, Call("start", n))], chg, n)} :
             vis' = start_returns(v, n, Namespaces[vis.ns].nodes[n].t, r)
    /\ UNCHANGED <<simVars, cv, lay, ge, leg>>

\* the children are visited in order; after the last one res is Ok
VisitChildren ==
    /\ vis.pc = "visit"
    /\ vis.stack[Len(vis.stack)].phase = "children"
    /\ \E f \in {vis.stack[Len(vis.stack)]} :
         \E cs \in {Namespaces[vis.ns].nodes[f.node].children} :
           vis' = IF f.i > Len(cs)
                  THEN [vis EXCEPT !.stack[Len(vis.stack)] =
                           Frame(f.node, "finish", f.i, "Ok")]
                  ELSE [vis EXCEPT !.stack =
                           Append([@ EXCEPT ![Len(vis.stack)] =
                                      Frame(f.node, "children", f.i + 1,
                                            "Ok")],
                                  Frame(cs[f.i], "start", 1, "Ok"))]
    /\ UNCHANGED <<simVars, cv, lay, ge, leg>>

\* finish_x is called with res, new_node is applied and visit returns what
\* finish_x returned
VisitFinish ==
    /\ vis.pc = "visit"
    /\ vis.stack[Len(vis.stack)].phase = "finish"
    /\ \E res2 \in {"Ok", "Err"}, chg \in {c \in BOOLEAN :
                                           c => Len(vis.by) < MaxChanges} :
         \E n \in {vis.stack[Len(vis.stack)].node} :
           \E v \in {apply_new_node(
                        change_node([vis EXCEPT !.calls =
                                        Append(@, Call("finish", n))],
                                    chg, n), n)} :
             vis' = visit_returns(v, res2)
    /\ UNCHANGED <<simVars, cv, lay, ge, leg>>

InitVisit ==
    /\ InitSim({1}, "off")
    /\ cv = CvIdle
    /\ lay = LayIdle
    /\ vis = VisNew
    /\ ge = GeIdle
    /\ leg = LegIdle

NextVisit == DoPass \/ VisitStart \/ VisitChildren \/ VisitFinish

SpecVisit == InitVisit /\ [][NextVisit]_vars

\* the indexes of the calls of f (start or finish) on node n
CallsOf(f, n) == {i \in 1..Len(vis.calls) : vis.calls[i] = Call(f, n)}

\* c is a child of node n of the namespace visited
ChildOf(n, c) ==
    \E q \in 1..Len(Namespaces[vis.ns].nodes[n].children) :
        Namespaces[vis.ns].nodes[n].children[q] = c

OnStack(n) == \E i \in 1..Len(vis.stack) : vis.stack[i].node = n

\* C22: start_x of a node is called before any of its children is
\* visited and finish_x after all of them, and every node whose start_x was
\* called gets its finish_x called, also when start_x or the visit of a
\* child returned Err
C22_StartFinishBracket ==
    vis.pc \in {"visit", "done", "panic"} =>
        \A n \in 1..Len(Namespaces[vis.ns].nodes) :
            /\ \A c \in 1..Len(Namespaces[vis.ns].nodes) :
                  ChildOf(n, c) =>
                      \A k \in CallsOf("start", c) \cup CallsOf("finish", c) :
                          /\ \E i \in CallsOf("start", n) : i < k
                          /\ \A j \in CallsOf("finish", n) : k < j
            /\ \A j \in CallsOf("finish", n) :
                  \E i \in CallsOf("start", n) : i < j
            /\ CallsOf("start", n) # {} =>
                  CallsOf("finish", n) # {} \/ OnStack(n)

\* C23: a call of _change_node made during start_x or finish_x of node n
\* replaces node n once finish_x of n has been called, and a node is
\* replaced only by a call made while it was itself being visited
C23_ChangeNodeReplacesOnlyVisited ==
    vis.pc \in {"visit", "done", "panic"} =>
        \A m \in 1..Len(Namespaces[vis.ns].nodes) :
            /\ vis.tree[m] # 0 =>
                  /\ vis.by[vis.tree[m]] = m
                  /\ CallsOf("finish", m) # {}
            /\ (/\ \E k \in 1..Len(vis.by) : vis.by[k] = m
                /\ CallsOf("finish", m) # {}) =>
                  /\ vis.tree[m] # 0
                  /\ vis.by[vis.tree[m]] = m

-----------------------------------------------------------------------------
(* The par counter *)

\* C21: a Par of at most 65535 children stores its number of children in
\* par_map, and a Par of more children makes step return a ParOverflow
\* error, with no par_map entry and no child fanned out
C21_ParOverflowReturned ==
    /\ \A pt \in DOMAIN par_map :
          /\ par_map[pt] <= Len(NodesOf(prog)[pt.node].stms)
          /\ par_map[pt] <= U16Max
    /\ step_ret.what = "ParOverflow" =>
          /\ step_ret.kind = "Err"
          /\ par_map = EmptyMap
          /\ vec = SeedPC(prog)

-----------------------------------------------------------------------------
(* The with group of an If *)

\* C24: once an If with a combinational group has read its condition and
\* the cursor is in the selected branch, with_map holds no entry for the
\* If, so the bundle of the convergence has no entry for its with group
C24_IfEntryRemovedOnSelect ==
    \A pt \in DOMAIN with_map :
        NodesOf(prog)[pt.node].t = "If" => ~LiveBelow(pt)

-----------------------------------------------------------------------------
(* Inactive components *)

\* instance c is skipped by the walk over a port map pm: its go is not
\* high or its done is high
Inactive(pm, c) ==
    \/ ~unwrap_or_default(as_bool(pm[get_comp_go(c)]))
    \/ unwrap_or_default(as_bool(pm[get_comp_done(c)]))

\* the control points of instance c in v, in order
PointsOf(v, c) == SelectSeq(v, LAMBDA pt : pt.comp = c)

\* the entries of the map m that belong to instance c
EntriesOf(m, c) == [pt \in {k \in DOMAIN m : k.comp = c} |-> m[pt]]

\* C25: a control advancement leaves the control points of a component
\* whose go is not high or whose done is high as they are: the points
\* keep their nodes, the par_map and with_map entries of the component are
\* unchanged, none of its points is a leaf and its done is not scheduled
C25_InactiveUntouched ==
    [][\A c \in {RootCell, SubCell} :
         (pc = "advance" /\ pc' = "reset" /\ Inactive(ports, c)) =>
             /\ PointsOf(vec', c) = PointsOf(vec, c)
             /\ EntriesOf(par_map', c) = EntriesOf(par_map, c)
             /\ EntriesOf(with_map', c) = EntriesOf(with_map, c)
             /\ PointsOf(leaf_nodes', c) = <<>>
             /\ ~Schedules(set_done', c)]_vars

\* the sub-component of seq { invoke sub; invoke sub with CG1 } has been
\* skipped with its go not high, and again with its done high
C25_Witness ==
    /\ prog = 24
    /\ pc = "reset"
    /\ PointsOf(vec, SubCell) = <<ControlPoint(SubCell, 4)>>
    /\ Inactive(prev_ports, SubCell)
    /\ unwrap_or_default(as_bool(prev_ports[get_comp_done(SubCell)]))
    /\ nsteps > 1

-----------------------------------------------------------------------------
(* The fan-in of a par *)

\* the number of control points of v that are at pt
CountAt(v, pt) == Cardinality({i \in 1..Len(v) : v[i] = pt})

\* the control points of the Par nodes of the running program's entry
\* component
ParPointsOf(pg) ==
    {ControlPoint(RootCell, p) : p \in NodesOfType(pg, "Par")}

\* C26: a control advancement that visits a Par for the first time stores
\* its number of children in par_map, puts one control point per child in
\* the program counter and drops the point of the Par; later advancements
\* take one from the counter for every control point that has come back to
\* the Par, never more than the counter holds; the advancement that takes
\* the last one removes the entry, leaves no control point below the
\* Par and moves on to the successor of the Par or finishes the component;
\* without a control point at the Par its entry does not change
C26_ParFanIn ==
    [][\A pt \in ParPointsOf(prog) :
         (pc = "advance" /\ pc' = "reset") =>
            LET k == CountAt(vec, pt)
                stms == NodesOf(prog)[pt.node].stms
            IN  /\ (k > 0 /\ pt \notin DOMAIN par_map) =>
                      /\ pt \in DOMAIN par_map'
                      /\ par_map'[pt] = Len(stms)
                      /\ CountAt(vec', pt) = 0
                      /\ \A i \in 1..Len(stms) :
                            CountAt(vec', ControlPoint(pt.comp, stms[i]))
                              = Cardinality({j \in 1..Len(stms) :
                                               stms[j] = stms[i]})
                /\ (k > 0 /\ pt \in DOMAIN par_map) =>
                      /\ k <= par_map[pt]
                      /\ k < par_map[pt] =>
                            /\ pt \in DOMAIN par_map'
                            /\ par_map'[pt] = par_map[pt] - k
                      /\ k = par_map[pt] =>
                            /\ pt \notin DOMAIN par_map'
                            /\ ~LiveBelow(pt)'
                            /\ IF get_next(prog, pt) # 0
                               THEN CountAt(vec', ControlPoint(
                                        pt.comp, get_next(prog, pt))) > 0
                               ELSE /\ Schedules(set_done', pt.comp)
                                    /\ vec' = <<ControlPoint(
                                                  pt.comp,
                                                  ControlOf(prog, pt.comp))>>
                /\ k = 0 =>
                      /\ (pt \in DOMAIN par_map) = (pt \in DOMAIN par_map')
                      /\ pt \in DOMAIN par_map =>
                            par_map'[pt] = par_map[pt]]_vars

\* par { seq { G1; G3 }; G2 }: the second arm has been merged and the
\* counter is 1 while the first arm is still at G3
C26_Witness ==
    /\ prog = 17
    /\ pc = "reset"
    /\ ControlPoint(RootCell, 1) \in DOMAIN par_map
    /\ par_map[ControlPoint(RootCell, 1)] = 1
    /\ vec = <<ControlPoint(RootCell, 4)>>

-----------------------------------------------------------------------------
(* The go of an enabled group *)

\* pt is at an Enable node
AtEnable(pt) == NodesOf(prog)[pt.node].t = "Enable"

\* the global go and done ports of the group of the Enable at pt
GroupGoOf(pt) ==
    get_global_port_idx(Groups[NodesOf(prog)[pt.node].group].go, pt.comp)
GroupDoneOf(pt) ==
    get_global_port_idx(Groups[NodesOf(prog)[pt.node].group].done, pt.comp)

\* the go ports of the groups that the running program can enable
EnableGoPorts ==
    UNION {{GroupGoOf(ControlPoint(c, n)) :
              n \in NodesOfType(prog, "Enable")
                    \cap ({ControlOf(prog, c)}
                          \cup Descendants(prog, ControlOf(prog, c)))} :
           c \in {d \in {RootCell, SubCell} : ControlOf(prog, d) # 0}}

\* a control point of v is at an Enable of the group with go port p
EnableIn(v, p) ==
    \E i \in 1..Len(v) : AtEnable(v[i]) /\ GroupGoOf(v[i]) = p

\* the walk over v with port map pm visits an Enable of the group with go
\* port p, in a component that is not skipped, and reads the group's done
\* not high
VisitedNotDone(v, pm, p) ==
    \E i \in 1..Len(v) :
        /\ AtEnable(v[i])
        /\ GroupGoOf(v[i]) = p
        /\ ~Inactive(pm, v[i].comp)
        /\ ~unwrap_or_default(as_bool(pm[GroupDoneOf(v[i])]))

\* C27: the leaves that a control advancement collects hold an Enable of
\* a group exactly when the walk visited an Enable of that group in a
\* component that is not skipped and read the group's done not high; an
\* Enable that is visited with its group's done high moves to its
\* successor (or its component finishes); when the convergence of the
\* step starts, the go of a group is Implicit(1) exactly when one of the
\* leaves enables it, and exactly then the bundle holds the group's entry
C27_GoIffVisitedNotDone ==
    /\ [][(pc = "advance" /\ pc' = "reset") =>
            /\ \A p \in EnableGoPorts :
                  EnableIn(leaf_nodes', p) <=> VisitedNotDone(vec, ports, p)
            /\ \A i \in 1..Len(vec) :
                  (/\ AtEnable(vec[i])
                   /\ ~Inactive(ports, vec[i].comp)
                   /\ unwrap_or_default(as_bool(ports[GroupDoneOf(vec[i])])))
                  => IF get_next(prog, vec[i]) # 0
                     THEN /\ CountAt(vec', vec[i]) = 0
                          /\ CountAt(vec', ControlPoint(vec[i].comp,
                                       get_next(prog, vec[i]))) > 0
                     ELSE /\ Schedules(set_done', vec[i].comp)
                          /\ CountAt(vec', ControlPoint(vec[i].comp,
                                       ControlOf(prog, vec[i].comp))) > 0]_vars
    /\ [](pc = "converge" =>
            \A p \in EnableGoPorts :
                /\ (ports[p] = Implicit(1)) <=> EnableIn(leaf_nodes, p)
                /\ \A worder \in Orders(DOMAIN with_map) :
                      EnableIn(leaf_nodes, p) <=>
                         \E e \in SeqRange(get_assignments(
                                    prog, leaf_nodes, with_map, worder)) :
                            /\ e.iface
                            /\ get_global_port_idx(e.go, e.active_cell) = p)

\* a step in which the Enable of one group was visited with its done
\* high and has moved on, while another group is still running: only the
\* go of the latter is raised
C27_Witness ==
    /\ pc = "converge"
    /\ nsteps > 1
    /\ \E g1, g2 \in 1..2 :
          /\ g1 # g2
          /\ unwrap_or_default(as_bool(prev_ports[Groups[g1].done]))
          /\ ~unwrap_or_default(as_bool(prev_ports[Groups[g2].done]))
          /\ ports[Groups[g1].go] = Undef
          /\ ports[Groups[g2].go] = Implicit(1)
          /\ leaf_nodes # <<>>
          /\ \A i \in 1..Len(leaf_nodes) :
                /\ AtEnable(leaf_nodes[i])
                /\ NodesOf(prog)[leaf_nodes[i].node].group = g2

-----------------------------------------------------------------------------
(* The end of a component's control program *)

\* the control point of the control root of instance c
RootPoint(c) == ControlPoint(c, ControlOf(prog, c))

\* the visit of pt, read in the port map pm, the program counter v and the
\* par_map m, finds that nothing is left to run at pt: a leaf that is
\* done, an Empty, a Seq without children, or a Par whose last children
\* are merged
NothingLeftAt(pm, v, m, pt) ==
    LET n == NodesOf(prog)[pt.node]
    IN  \/ /\ n.t = "Enable"
           /\ unwrap_or_default(as_bool(pm[GroupDoneOf(pt)]))
        \/ /\ n.t = "Invoke"
           /\ unwrap_or_default(as_bool(
                  pm[get_global_port_idx(n.done, pt.comp)]))
        \/ n.t = "Empty"
        \/ n.t = "Seq" /\ Len(n.stms) = 0
        \/ /\ n.t = "Par"
           /\ pt \in DOMAIN m
           /\ CountAt(v, pt) = m[pt]

\* C28: a control advancement schedules the done of a component that is
\* not skipped when it visits a control point without successor at which
\* nothing is left to run, and only when it visits a control point without
\* successor that is not a Par with an entry left in par_map; after the
\* reset phase of that step the done of the component is Implicit(1) and
\* the control point of the component is at its control root; a control
\* advancement leaves the control points of a component where they are
\* while its go is not high or its done is high
C28_FinishRaisesDoneAndReseeds ==
    /\ [][(pc = "advance" /\ pc' = "reset") =>
            \A c \in {RootCell, SubCell} :
               /\ (/\ ~Inactive(ports, c)
                   /\ \E i \in 1..Len(vec) :
                         /\ vec[i].comp = c
                         /\ get_next(prog, vec[i]) = 0
                         /\ NothingLeftAt(ports, vec, par_map, vec[i]))
                  => Schedules(set_done', c)
               /\ Schedules(set_done', c) =>
                     /\ ~Inactive(ports, c)
                     /\ \E i \in 1..Len(vec) :
                           /\ vec[i].comp = c
                           /\ get_next(prog, vec[i]) = 0
                           /\ \/ NodesOf(prog)[vec[i].node].t # "Par"
                              \/ vec[i] \notin DOMAIN par_map'
               /\ Inactive(ports, c) =>
                     PointsOf(vec', c) = PointsOf(vec, c)]_vars
    /\ [](pc = "leaf_go" =>
            \A c \in {RootCell, SubCell} :
                Schedules(set_done, c) =>
                    /\ ports[get_comp_done(c)] = Implicit(1)
                    /\ PointsOf(vec, c) = <<RootPoint(c)>>)

\* the sub-component of program 24 finished in a step in which the root
\* went on: after the reset phase its done is raised and its control
\* point is back at its control root
C28_Witness ==
    /\ prog = 24
    /\ pc = "leaf_go"
    /\ Schedules(set_done, SubCell)
    /\ ~Schedules(set_done, RootCell)
    /\ ports[get_comp_done(SubCell)] = Implicit(1)
    /\ PointsOf(vec, SubCell) = <<RootPoint(SubCell)>>

-----------------------------------------------------------------------------
(* The tests in front of an assignment's write *)

\* the destination of assignment a of entry e is the done port of e
WritesDone(e, a) ==
    /\ e.iface
    /\ get_global_port_idx(Assigns[a].dst, e.active_cell)
         = get_global_port_idx(e.done, e.active_cell)

\* the port map q holds at the destination of assignment a of entry e a
\* value that a wrote and that the port map p did not hold
NewlyWritten(p, q, e, a) ==
    LET dest == get_global_port_idx(Assigns[a].dst, e.active_cell)
    IN  /\ q[dest].k = "A"
        /\ q[dest].src = a
        /\ p[dest] # q[dest]

\* the entries of the bundle of the convergence with their assignments
BundleAssigns ==
    {<<cv.bundle[i], a>> :
        i \in 1..Len(cv.bundle),
        a \in 1..Len(Assigns)} \cap
    {<<e, a>> \in SeqRange(cv.bundle) \X (1..Len(Assigns)) :
        a \in SeqRange(RangeSeq(e.assignments))}

\* C29: in a pass of the convergence an assignment goes past the test in
\* front of the write only when its guard reads true (an undefined guard
\* holds it back) and, in an entry with interface ports, the go of the
\* entry and the go of the component both read high; in an entry without
\* interface ports it goes past the test whenever its guard reads true,
\* whatever the go of the component; a pass that starts with the go of the
\* component not high writes no destination of a group entry
C29_FiresOnGuardAndGo ==
    /\ [](\A x \in cv.log :
            /\ x.did # "idle" =>
                  /\ x.guard = "T"
                  /\ x.e.iface => x.go = "T" /\ x.comp_go = "T"
            /\ x.guard = "N" => x.did = "idle"
            /\ (~x.e.iface /\ x.guard = "T") => x.did = "fired"
            /\ (x.did = "fired" /\ x.src /\ cv.err.what = "none") =>
                  \E f \in cv.fired : f.a = x.a)
    /\ [][(cv.pc = "loop" /\ cv'.pc # "new"
           /\ ~unwrap_or_default(as_bool(cv.ports[get_comp_go(RootCell)])))
          => \A ea \in BundleAssigns :
                ea[1].iface =>
                   ~NewlyWritten(cv.ports, cv'.asg, ea[1], ea[2])]_vars

\* a pass with the component's go low: an assignment of a group whose go
\* is high and whose guard is true was held back, an assignment of a
\* combinational group has written
C29_Witness ==
    /\ cv.pc \in {"loop", "done"}
    /\ \E x \in cv.log :
          /\ x.e.iface
          /\ x.guard = "T" /\ x.go = "T" /\ x.comp_go = "F"
          /\ x.did = "idle"
    /\ \E y \in cv.log :
          /\ ~y.e.iface
          /\ y.comp_go = "F"
          /\ y.did = "fired"
          /\ y.src
          /\ \E f \in cv.fired : f.a = y.a

\* C30: in a pass of the convergence an assignment of a group entry whose
\* destination is not the done port of the group goes on to the write only
\* when the done port reads low; while it reads undefined only the
\* assignment to the done port goes on to the write; a pass that starts
\* with the done port of a group high writes no other destination of the
\* group
C30_DoneGatesGroupWrites ==
    /\ [](\A x \in cv.log :
            /\ (x.e.iface /\ ~WritesDone(x.e, x.a) /\ x.done # "F") =>
                  x.did # "fired"
            /\ (x.e.iface /\ x.done = "N" /\ x.did = "fired") =>
                  WritesDone(x.e, x.a))
    /\ [][(cv.pc = "loop" /\ cv'.pc # "new") =>
            \A ea \in BundleAssigns :
               (/\ ea[1].iface
                /\ ~WritesDone(ea[1], ea[2])
                /\ unwrap_or_default(as_bool(cv.ports[
                       get_global_port_idx(ea[1].done,
                                           ea[1].active_cell)])))
               => ~NewlyWritten(cv.ports, cv'.asg, ea[1], ea[2])]_vars

\* a pass in which the done port of a group read undefined: the
\* assignment to the done port wrote it, the other assignments of the
\* group were skipped
C30_Witness ==
    /\ cv.pc \in {"loop", "done"}
    /\ \E x \in cv.log :
          /\ x.e.iface
          /\ x.done = "N"
          /\ WritesDone(x.e, x.a)
          /\ x.did = "fired"
          /\ x.src
          /\ \E y \in cv.log :
                /\ y.e = x.e
                /\ ~WritesDone(y.e, y.a)
                /\ y.done = "N"
                /\ y.did = "skipped"

-----------------------------------------------------------------------------
(* evaluate_guard on its own: a guard of the table is evaluated in the     *)
(* entry component on a port map in which the two ports that the guards    *)
(* read hold any value or none.                                            *)

\* the ports that the guards of the table read
GuardPorts == {13, 14}

\* what a port can hold
PortValues ==
    {Undef} \cup {Implicit(v) : v \in 0..(Modulus - 1)}
            \cup {Assigned(v, 1) : v \in 0..1}

GePorts(v13, v14) ==
    [p \in PortIdx |-> IF p = 13 THEN v13 ELSE IF p = 14 THEN v14 ELSE Undef]

InitGuard ==
    /\ InitSim({1}, "off")
    /\ cv = CvIdle
    /\ lay = LayIdle
    /\ vis = VisIdle
    /\ leg = LegIdle
    /\ ge = [pc |-> "new"]

\* evaluate_guard is called
GuardCall ==
    /\ ge.pc = "new"
    /\ \E g \in 1..Len(Guards), v13 \in PortValues, v14 \in PortValues :
          ge' = [pc |-> "call", guard |-> g, ports |-> GePorts(v13, v14),
                 res |-> "none"]
    /\ UNCHANGED <<simVars, cv, lay, vis, leg>>

\* and returns
GuardReturn ==
    /\ ge.pc = "call"
    /\ ge' = [ge EXCEPT !.pc = "ret",
                        !.res = evaluate_guard(ge.ports, ge.guard, RootCell)]
    /\ UNCHANGED <<simVars, cv, lay, vis, leg>>

NextGuard == GuardCall \/ GuardReturn

SpecGuard == InitGuard /\ [][NextGuard]_vars

\* the ports that the tree of a guard refers to
RECURSIVE PortsIn(_)
PortsIn(guard) ==
    LET g == Guards[guard] IN
    CASE g.t = "True" -> {}
      [] g.t \in {"Or", "And"} -> PortsIn(g.a) \cup PortsIn(g.b)
      [] g.t = "Not" -> PortsIn(g.a)
      [] g.t = "Comp" -> {g.a, g.b}
      [] g.t = "Port" -> {g.p}

\* the boolean value of the tree of a guard whose ports are all defined
RECURSIVE BoolValue(_, _)
BoolValue(pm, guard) ==
    LET g == Guards[guard] IN
    CASE g.t = "True" -> TRUE
      [] g.t = "Or" -> BoolValue(pm, g.a) \/ BoolValue(pm, g.b)
      [] g.t = "And" -> BoolValue(pm, g.a) /\ BoolValue(pm, g.b)
      [] g.t = "Not" -> ~BoolValue(pm, g.a)
      [] g.t = "Comp" ->
            (CASE g.p = "Eq" -> pm[g.a].v = pm[g.b].v
               [] g.p = "Neq" -> pm[g.a].v # pm[g.b].v
               [] g.p = "Gt"  -> pm[g.a].v > pm[g.b].v
               [] g.p = "Lt"  -> pm[g.a].v < pm[g.b].v
               [] g.p = "Geq" -> pm[g.a].v >= pm[g.b].v
               [] g.p = "Leq" -> pm[g.a].v <= pm[g.b].v)
      [] g.t = "Port" -> pm[g.p].v = 1

\* C31: evaluate_guard returns None when a port of the guard's tree is
\* undefined, whatever the other operands are, and the boolean value of
\* the tree when all its ports are defined
C31_GuardUndefinedPropagates ==
    ge.pc = "ret" =>
        IF \E p \in PortsIn(ge.guard) : is_undef(ge.ports[p])
        THEN ge.res = "N"
        ELSE ge.res = BoolOpt(BoolValue(ge.ports, ge.guard))

\* true | p13 has returned None with p13 undefined
C31_Witness ==
    /\ ge.pc = "ret"
    /\ Guards[ge.guard].t = "Or"
    /\ Guards[Guards[ge.guard].a].t = "True"
    /\ is_undef(ge.ports[13])
    /\ ge.res = "N"

-----------------------------------------------------------------------------
(* Values asserted by the engine *)

\* the ports of the primitive cells
PrimPortSet == UNION {SeqRange(LocalPorts(c)) : c \in PrimCells}

\* the done ports of the bundle that are undefined in the port map pm
Dangling(pm) == {p \in done_ports(cv.bundle) : is_undef(pm[p])}

\* C32: a pass of the convergence that changes nothing while done ports of
\* the bundle's group entries are undefined sets each of them to
\* Implicit(0) and is followed by another pass; a pass gives a port outside
\* the primitives an Implicit value only in this way; the pass after which
\* the loop ends changes nothing, and when the loop has ended every done
\* port of the bundle is defined
C32_DanglingDoneResolved ==
    /\ [](cv.pc = "done" => Dangling(cv.ports) = {})
    /\ [][(cv.pc = "loop" /\ cv'.pc \in {"loop", "done"}) =>
            /\ (/\ cv'.asg = cv.ports
                /\ \A q \in PortIdx \ done_ports(cv.bundle) :
                       cv'.ports[q] = cv.ports[q]
                /\ Dangling(cv.ports) # {})
               => /\ \A p \in Dangling(cv.ports) :
                        cv'.ports[p] = Implicit(0)
                  /\ cv'.pc = "loop"
            /\ \A p \in PortIdx \ PrimPortSet :
                  (cv'.ports[p].k = "I" /\ cv'.ports[p] # cv.ports[p]) =>
                      /\ cv'.ports[p] = Implicit(0)
                      /\ p \in Dangling(cv.ports)
                      /\ cv'.asg = cv.ports
                      /\ \A q \in PortIdx \ done_ports(cv.bundle) :
                             cv'.ports[q] = cv.ports[q]
            /\ cv'.pc = "done" => cv'.ports = cv.ports]_vars

\* the loop has ended on a bundle with a group whose go is not high: its
\* done was left undefined by the assignments and reads Implicit(0)
C32_Witness ==
    /\ cv.pc = "done"
    /\ cv.run = 1
    /\ cv.passes > 1
    /\ \E i \in 1..Len(cv.bundle) :
          /\ cv.bundle[i].iface
          /\ is_undef(cv.start[get_global_port_idx(cv.bundle[i].done,
                                                   cv.bundle[i].active_cell)])
          /\ cv.ports[get_global_port_idx(cv.bundle[i].done,
                                          cv.bundle[i].active_cell)]
                = Implicit(0)

-----------------------------------------------------------------------------
(* The bundle of the main convergence *)

\* the assignments of a range
InRange(r) == r.lo..r.hi

\* the assignments that the leaves, the continuous assignments and the
\* with groups in flight bring into the cycle
ScheduledSet ==
    UNION {InRange(IF AtEnable(leaf_nodes[i])
                   THEN Groups[NodesOf(prog)[leaf_nodes[i].node].group]
                            .assignments
                   ELSE NodesOf(prog)[leaf_nodes[i].node].assignments) :
           i \in 1..Len(leaf_nodes)}
    \cup UNION {InRange(Programs[prog].cont[i]) :
                i \in 1..Len(Programs[prog].cont)}
    \cup UNION {InRange(CombGroups[with_map[pt]].assignments) :
                pt \in DOMAIN with_map}

\* C33: the bundle of the main convergence of a step holds, in this order,
\* one entry per leaf (the group's assignments with its go and done for an
\* Enable, the invoke's assignments without interface ports for an
\* Invoke), one entry per range of continuous assignments and one entry
\* per entry of with_map; when the convergence has returned, every value
\* that an assignment has written comes from an assignment of these
C33_BundleIsLeavesContinuousWith ==
    /\ (pc = "converge" =>
          \A worder \in Orders(DOMAIN with_map) :
            LET b == get_assignments(prog, leaf_nodes, with_map, worder)
                nl == Len(leaf_nodes)
                nc == Len(Programs[prog].cont)
            IN  /\ Len(b) = nl + nc + Cardinality(DOMAIN with_map)
                /\ \A i \in 1..nl :
                      LET n == NodesOf(prog)[leaf_nodes[i].node]
                      IN  /\ b[i].active_cell = leaf_nodes[i].comp
                          /\ n.t \in {"Enable", "Invoke"}
                          /\ n.t = "Enable" =>
                                /\ b[i].iface
                                /\ b[i].go = Groups[n.group].go
                                /\ b[i].done = Groups[n.group].done
                                /\ b[i].assignments
                                     = Groups[n.group].assignments
                          /\ n.t = "Invoke" =>
                                /\ ~b[i].iface
                                /\ b[i].assignments = n.assignments
                /\ \A i \in 1..nc :
                      /\ ~b[nl + i].iface
                      /\ b[nl + i].active_cell = RootCell
                      /\ b[nl + i].assignments = Programs[prog].cont[i]
                /\ \A i \in 1..Len(worder) :
                      /\ ~b[nl + nc + i].iface
                      /\ b[nl + nc + i].active_cell = worder[i].comp
                      /\ b[nl + nc + i].assignments
                           = CombGroups[with_map[worder[i]]].assignments)
    /\ (pc = "tick" =>
          \A p \in PortIdx :
              ports[p].k = "A" => ports[p].src \in ScheduledSet)

\* a cycle of a program with a continuous assignment in which an Enable
\* is the leaf: an assignment of the group and the continuous assignment
\* have both written
C33_Witness ==
    /\ pc = "tick"
    /\ Len(leaf_nodes) >= 1
    /\ AtEnable(leaf_nodes[1])
    /\ Len(Programs[prog].cont) = 1
    /\ \E p \in PortIdx :
          /\ ports[p].k = "A"
          /\ ports[p].src \in InRange(Programs[prog].cont[1])
    /\ \E p \in PortIdx :
          /\ ports[p].k = "A"
          /\ ports[p].src \in InRange(
                Groups[NodesOf(prog)[leaf_nodes[1].node].group].assignments)

-----------------------------------------------------------------------------
(* An assignment that would undefine its destination *)

\* C34: a convergence in which a firing assignment has an undefined source
\* and a defined destination ends with an error that step returns as its
\* Err result
C34_UndefiningAssignmentReturned ==
    step_ret.what = "UndefinesValue" => step_ret.kind = "Err"

-----------------------------------------------------------------------------
(* An invoke of a primitive *)

\* the Invoke nodes of the running program whose cell is a primitive
PrimitiveInvokes ==
    {n \in NodesOfType(prog, "Invoke") :
        Cells[NodesOf(prog)[n].cell].kind # "comp"}

\* C35: a control advancement that visits an Invoke of a primitive with
\* its done high does not abort: the control point leaves the Invoke
C35_PrimitiveInvokeAdvances ==
    \A n \in PrimitiveInvokes :
        (/\ pc = "aborted"
         /\ AtNode(vec, n)
         /\ unwrap_or_default(as_bool(
                ports[get_global_port_idx(NodesOf(prog)[n].done, RootCell)])))
        => step_ret.what # "MalformedInvoke"

-----------------------------------------------------------------------------
(* The entries of with_map *)

\* the combinational group that the control node n carries, 0 for none
OwnGroup(n) ==
    IF n.t \in {"If", "While"} THEN n.cond_group
    ELSE IF n.t = "Invoke" THEN n.comb_group
    ELSE 0

\* C36: with_map maps a control point only when its node is an If, a While
\* or an Invoke that carries a combinational group, to that group, and a
\* control point of the component is at the node or below it; a control
\* advancement that schedules the done of a component leaves no entry of
\* the component in with_map
C36_WithMapInFlight ==
    /\ [](\A pt \in DOMAIN with_map :
            /\ NodesOf(prog)[pt.node].t \in {"If", "While", "Invoke"}
            /\ OwnGroup(NodesOf(prog)[pt.node]) # 0
            /\ with_map[pt] = OwnGroup(NodesOf(prog)[pt.node])
            /\ LiveAt(pt))
    /\ [][(pc = "advance" /\ pc' = "reset") =>
            \A c \in {RootCell, SubCell} :
                Schedules(set_done', c) =>
                    DOMAIN EntriesOf(with_map', c) = {}]_vars

\* seq { invoke sub; invoke sub with CG1 }: the second invoke has been
\* done, its entry has been dropped, and the component has finished
C36_Witness ==
    /\ prog = 24
    /\ pc = "reset"
    /\ Schedules(set_done, RootCell)
    /\ DOMAIN with_map = {}
    /\ vec = <<RootPoint(RootCell), RootPoint(SubCell)>>

(* Pars and the control points of a component *)

\* C37: a control advancement leaves every component that had a control
\* point either with a control point in vec or with its done scheduled, so
\* that a Par whose children have all finished, a Par without children
\* included, goes on to its successor or finishes the component
C37_ParAlwaysAdvances ==
    [][(pc = "advance" /\ pc' = "reset") =>
          \A c \in {RootCell, SubCell} :
              PointsOf(vec, c) # <<>> =>
                  \/ PointsOf(vec', c) # <<>>
                  \/ Schedules(set_done', c)]_vars

-----------------------------------------------------------------------------
(* The legacy interpreter (interp/src/interpreter.rs): an Environment maps *)
(* cell names to the u64 values on their ports and queues the updates of   *)
(* registers; eval_assigns runs the assignments of a group and then        *)
(* do_tick.  std_sqrt and the arithmetic cells are left out.               *)

LegMaxVal == 1      \* the constant cells hold 0..LegMaxVal
MaxQueue == 2       \* updates queued at most

\* cell names
LegReg == <<"reg", 0>>
LegCmp == <<"cmp", 0>>
LegConst(v) == <<"const", v>>

LegCellIds == {LegReg, LegCmp} \cup {LegConst(v) : v \in 0..LegMaxVal}

CompareTypes == {"std_gt", "std_lt", "std_eq", "std_neq", "std_ge", "std_le"}

\* Environment::cells, with a comparison cell of type ct
LegCells(ct) ==
    [c \in LegCellIds |->
        IF c = LegReg THEN "std_reg" ELSE IF c = LegCmp THEN ct
        ELSE "std_const"]

\* Environment::init on the map of a component whose ports are all 0,
\* except the outputs of the constants
LegInitEnv ==
    [map |-> [c \in LegCellIds |->
                 IF c = LegReg
                 THEN [p \in {"in", "write_en", "out", "done"} |-> 0]
                 ELSE IF c = LegCmp
                 THEN [p \in {"left", "right", "out"} |-> 0]
                 ELSE [p \in {"out"} |-> c[2]]],
     update_queue |-> <<>>]

\* `as u64` of a bool
BoolAsU64(b) == IF b THEN 1 ELSE 0

get(env, cell, port) == env.map[cell][port]

put(env, cell, port, val) ==
    [env EXCEPT !.map =
        IF cell \in DOMAIN env.map
        THEN [env.map EXCEPT ![cell] = (port :> val) @@ @]
        ELSE (cell :> (port :> val)) @@ env.map]

add_update(env, ucell, uinput, uoutput) ==
    [env EXCEPT !.update_queue =
        Append(@, [cell |-> ucell, inputs |-> uinput, outputs |-> uoutput])]

remove_update(env, ucell) ==
    [env EXCEPT !.update_queue = SelectSeq(@, LAMBDA u : u.cell # ucell)]

\* guards: True, Port(cell, port), Not(a), and the binary nodes over guards
LegTrue == [t |-> "True"]
LegPort(c, p) == [t |-> "Port", cell |-> c, port |-> p]
LegNot(a) == [t |-> "Not", a |-> a]
LegBin(t, a, b) == [t |-> t, a |-> a, b |-> b]

LegGuards == <<
    LegTrue,                        \*  1
    LegPort(LegReg, "done"),        \*  2
    LegPort(LegCmp, "out"),         \*  3
    LegNot(1),                      \*  4
    LegNot(2),                      \*  5
    LegBin("And", 2, 3),            \*  6
    LegBin("Or", 2, 3),             \*  7
    LegBin("Eq", 2, 3),             \*  8
    LegBin("Neq", 2, 3),            \*  9
    LegBin("Gt", 2, 3),             \* 10
    LegBin("Lt", 2, 3),             \* 11
    LegBin("Geq", 2, 3),            \* 12
    LegBin("Leq", 2, 3),            \* 13
    LegPort(LegReg, "write_en") >>  \* 14

RECURSIVE eval_guard(_, _)
eval_guard(guard, env) ==
    LET g == LegGuards[guard] IN
    BoolAsU64(
        CASE g.t = "Or" ->
                 (eval_guard(g.a, env) = 1) \/ (eval_guard(g.b, env) = 1)
          [] g.t = "And" ->
                 (eval_guard(g.a, env) = 1) /\ (eval_guard(g.b, env) = 1)
          [] g.t = "Eq" -> eval_guard(g.a, env) = eval_guard(g.b, env)
          [] g.t = "Neq" -> eval_guard(g.a, env) # eval_guard(g.b, env)
          [] g.t = "Gt" -> eval_guard(g.a, env) > eval_guard(g.b, env)
          [] g.t = "Lt" -> eval_guard(g.a, env) < eval_guard(g.b, env)
          [] g.t = "Geq" -> eval_guard(g.a, env) >= eval_guard(g.b, env)
          [] g.t = "Leq" -> eval_guard(g.a, env) <= eval_guard(g.b, env)
          [] g.t = "Not" -> eval_guard(g.a, env) # 0
          [] g.t = "Port" -> get(env, g.cell, g.port) # 0
          [] g.t = "True" -> TRUE)

is_combinational(cells, cell, port) ==
    IF cells[cell] = "std_reg" THEN port = "write_en"
    ELSE cells[cell] \in {"std_const"} \cup CompareTypes

\* the std_reg arm and the comparison arms
update_cell_state(cells, cell, inputs, output, env) ==
    LET new_env == env
        l == get(new_env, cell, inputs[1])
        r == get(env, cell, inputs[2])
    IN  CASE cells[cell] = "std_reg" ->
                 IF get(new_env, cell, "write_en") # 0
                 THEN LET e1 == put(new_env, cell, output[1],
                                    get(env, inputs[1], "out"))
                      IN  IF output[1] = "in"
                          THEN remove_update(
                                   put(put(e1, cell, "out",
                                           get(e1, cell, "in")),
                                       cell, "done", 1),
                                   cell)
                          ELSE e1
                 ELSE new_env
          [] cells[cell] = "std_gt" ->
                 put(new_env, cell, output[1], BoolAsU64(l > r))
          [] cells[cell] = "std_lt" ->
                 put(new_env, cell, output[1], BoolAsU64(l > r))
          [] cells[cell] = "std_eq" ->
                 put(new_env, cell, output[1], BoolAsU64(l = r))
          [] cells[cell] = "std_neq" ->
                 put(new_env, cell, output[1], BoolAsU64(l # r))
          [] cells[cell] = "std_ge" ->
                 put(new_env, cell, output[1], BoolAsU64(l >= r))
          [] cells[cell] = "std_le" ->
                 put(new_env, cell, output[1], BoolAsU64(l <= r))

\* the loop of do_tick over the clone uq of the queue, from entry i on
RECURSIVE do_tick_from(_, _, _, _)
do_tick_from(cells, self, uq, i) ==
    IF i > Len(uq) THEN self
    ELSE LET updated_env ==
                 update_cell_state(cells, uq[i].cell, uq[i].inputs,
                                   uq[i].outputs, self)
         IN  do_tick_from(
                 cells,
                 [self EXCEPT !.map[uq[i].cell] =
                                   updated_env.map[uq[i].cell]],
                 uq, i + 1)

do_tick(cells, self) == do_tick_from(cells, self, self.update_queue, 1)

\* init_cells for a register
init_cells(cell, inputs, outputs, env) ==
    add_update(env, cell, inputs, outputs)

LegAsg(dc, dp, sc) ==
    [dst_cell |-> dc, dst_port |-> dp, src_cell |-> sc, src_port |-> "out"]

\* the assignments of the groups explored: a constant drives an input of
\* the register or of the comparison cell
LegAssigns ==
    {LegAsg(LegReg, p, LegConst(v)) : p \in {"write_en", "in"},
                                      v \in 0..LegMaxVal}
      \cup {LegAsg(LegCmp, p, LegConst(v)) : p \in {"left", "right"},
                                             v \in 0..LegMaxVal}

\* the body of the loop over ok_assigns, for an assignment whose guard is
\* not 0; the sources are constants, so the read from env is the read from
\* write_env
AssignBody(cells, write_env, assign) ==
    LET read_val == get(write_env, assign.src_cell, assign.src_port)
    IN  IF is_combinational(cells, assign.dst_cell, assign.dst_port)
        THEN LET e1 == put(write_env, assign.dst_cell, assign.dst_port,
                           read_val)
             IN  IF assign.dst_port # "write_en"
                 THEN update_cell_state(cells, assign.dst_cell,
                                        <<"left", "right">>, <<"out">>, e1)
                 ELSE e1
        ELSE init_cells(assign.dst_cell, <<assign.src_cell>>,
                        <<assign.dst_port>>, write_env)

\* no assignment is being run
NoAssign == LegAsg(LegReg, "write_en", LegConst(0))

InitLegacy ==
    /\ InitSim({1}, "off")
    /\ cv = CvIdle
    /\ lay = LayIdle
    /\ vis = VisIdle
    /\ ge = GeIdle
    /\ \E ct \in CompareTypes :
          leg = [pc |-> "loop", cells |-> LegCells(ct),
                 env |-> LegInitEnv, guard |-> 1, gval |-> 1,
                 assign |-> NoAssign, last |-> "none"]

\* eval_assigns evaluates the guard of the next assignment
LegEvalGuard ==
    /\ leg.pc = "loop"
    /\ \E g \in 1..Len(LegGuards), a \in LegAssigns :
          leg' = [leg EXCEPT !.pc = "guarded", !.guard = g, !.assign = a,
                             !.gval = eval_guard(g, leg.env)]
    /\ UNCHANGED <<simVars, cv, lay, vis, ge>>

\* and runs the assignment when the guard is not 0; last is the call
\* that made the environment what it is
LegAssign ==
    /\ leg.pc = "guarded"
    /\ \E e \in {IF leg.gval # 0
                 THEN AssignBody(leg.cells, leg.env, leg.assign)
                 ELSE leg.env} :
          /\ Len(e.update_queue) <= MaxQueue
          /\ leg' = [leg EXCEPT
                 !.pc = "loop",
                 !.env = e,
                 !.guard = 1,
                 !.gval = 1,
                 !.assign = NoAssign,
                 !.last = IF leg.gval = 0 THEN leg.last
                          ELSE IF leg.assign.dst_cell = LegCmp
                          THEN "update_cell_state"
                          ELSE IF leg.assign.dst_port = "in"
                          THEN "init_cells"
                          ELSE "put"]
    /\ UNCHANGED <<simVars, cv, lay, vis, ge>>

\* at the end of the loop over the assignments eval_assigns calls do_tick
LegDoTick ==
    /\ leg.pc = "loop"
    /\ leg' = [leg EXCEPT !.env = do_tick(leg.cells, leg.env),
                          !.last = "do_tick"]
    /\ UNCHANGED <<simVars, cv, lay, vis, ge>>

NextLegacy == LegEvalGuard \/ LegAssign \/ LegDoTick

SpecLegacy == InitLegacy /\ [][NextLegacy]_vars

\* the updates of the register in a queue
RegUpdates(q) == {i \in 1..Len(q) : q[i].cell = LegReg}

\* C38: a do_tick that applies an update of the register while write_en is
\* not 0 and the update's output port is in makes out equal to in and done
\* 1 and leaves no update of the register in the queue; a do_tick while
\* write_en is 0 leaves out, done and the queue as they are
C38_CompletedUpdateLeavesQueue ==
    [][(leg.pc = "loop" /\ leg'.pc = "loop") =>
          /\ (/\ get(leg.env, LegReg, "write_en") # 0
              /\ \E i \in RegUpdates(leg.env.update_queue) :
                    leg.env.update_queue[i].outputs[1] = "in")
             => /\ get(leg'.env, LegReg, "out") = get(leg'.env, LegReg, "in")
                /\ get(leg'.env, LegReg, "done") = 1
                /\ RegUpdates(leg'.env.update_queue) = {}
          /\ get(leg.env, LegReg, "write_en") = 0
             => /\ get(leg'.env, LegReg, "out") = get(leg.env, LegReg, "out")
                /\ get(leg'.env, LegReg, "done")
                       = get(leg.env, LegReg, "done")
                /\ leg'.env.update_queue = leg.env.update_queue]_vars

\* C39: eval_guard returns 0 or 1; for Not(g) it returns 1 exactly when
\* eval_guard(g) is 0, and for True it returns 1
C39_EvalGuardBoolean ==
    leg.pc = "guarded" =>
        LET g == LegGuards[leg.guard]
        IN  /\ leg.gval \in {0, 1}
            /\ g.t = "True" => leg.gval = 1
            /\ g.t = "Not" =>
                  (leg.gval = 1 <=> eval_guard(g.a, leg.env) = 0)

\* what the name of a comparison cell stands for
CompareByName(ct, l, r) ==
    CASE ct = "std_lt" -> l < r
      [] ct = "std_gt" -> l > r
      [] ct = "std_le" -> l <= r
      [] ct = "std_ge" -> l >= r
      [] ct = "std_eq" -> l = r
      [] ct = "std_neq" -> l # r

\* C40: after update_cell_state ran for the comparison cell its out is 1
\* exactly when left and right compare as the name of the cell says, and
\* 0 otherwise
C40_ComparisonByName ==
    (leg.pc = "loop" /\ leg.last = "update_cell_state") =>
        get(leg.env, LegCmp, "out") =
            BoolAsU64(CompareByName(leg.cells[LegCmp],
                                    get(leg.env, LegCmp, "left"),
                                    get(leg.env, LegCmp, "right")))

====
